---- MODULE Spec2Model ----
(***************************************************************************)
(* Model of the concurrent recursive scan engine of `ds`:                  *)
(*   - read_and_count_lines  (src/src/file_system/read.rs)                 *)
(*   - read_entry_recursive  (src/src/file_system/read.rs)                 *)
(*   - spawn_readers + Semaphore (read.rs, src/src/utils/sync.rs)          *)
(*   - the consumer loop of main (src/src/main.rs)                         *)
(***************************************************************************)
EXTENDS Integers, Sequences, FiniteSets, TLC

(***************************************************************************)
(* Bounds of the model.                                                    *)
(***************************************************************************)
\* CHUNK_SIZE is 128 in read.rs:145.  It is scaled down so that chunk
\* boundaries fall inside the bounded file contents; it stays >= 4, the
\* length of the longest UTF-8 code point, as 128 is.
CHUNK_SIZE == 4
\* longest file content explored by the line-counter specification
MaxFileLen == 5
\* longest directory listing of the top directory of a walked tree
MaxChildren == 2
\* number of leading reader.read calls whose outcome is chosen freely
MaxShortReads == 2
\* largest number of top-level entries handed to spawn_readers
MaxEntries == 3
\* largest concurrency ceiling explored (max_threads = Some(0..MaxThreads))
MaxThreads == 2

(***************************************************************************)
(* Option<T>: None is the empty sequence, Some(x) the one-element one.     *)
(***************************************************************************)
None == <<>>
Some(x) == <<x>>
IsSome(o) == Len(o) = 1
Unwrap(o) == o[1]

Min(a, b) == IF a <= b THEN a ELSE b

(***************************************************************************)
(* Bytes.  A small alphabet with one representative of every class the     *)
(* decoder distinguishes: NUL (0), LF (10), an ASCII letter (97), a 2-byte  *)
(* lead (0xC3 = 195), a continuation byte (0xA9 = 169), a 4-byte lead      *)
(* (0xF0 = 240) and a byte that is never valid (0xFF = 255).  CR is not a  *)
(* separate class: str::lines().count() depends on LF only.                *)
(***************************************************************************)
Bytes == {0, 10, 97, 195, 169, 240, 255}

\* core::str::from_utf8, as used at read.rs:161: width of the code point
\* announced by its first byte (0 = not a valid first byte)
Utf8CharWidth(b) ==
    IF b < 128 THEN 1
    ELSE IF b >= 194 /\ b <= 223 THEN 2
    ELSE IF b >= 224 /\ b <= 239 THEN 3
    ELSE IF b >= 240 /\ b <= 244 THEN 4
    ELSE 0

IsCont(b) == b >= 128 /\ b <= 191

\* the range the second byte of a code point must lie in
SecondOk(first, b) ==
    IF first = 224 THEN b >= 160 /\ b <= 191
    ELSE IF first = 237 THEN b >= 128 /\ b <= 159
    ELSE IF first = 240 THEN b >= 144 /\ b <= 191
    ELSE IF first = 244 THEN b >= 128 /\ b <= 143
    ELSE IsCont(b)

\* length of the well-formed code point that starts at s[i], 0 when the
\* bytes at i are ill-formed or the sequence is cut short by the end of s
CharLenAt(s, i) ==
    LET w == Utf8CharWidth(s[i]) IN
    IF w = 0 THEN 0
    ELSE IF w = 1 THEN 1
    ELSE IF i + w - 1 > Len(s) THEN 0
    ELSE IF ~SecondOk(s[i], s[i + 1]) THEN 0
    ELSE IF \E k \in 2..(w - 1) : ~IsCont(s[i + k]) THEN 0
    ELSE w

RECURSIVE ValidFrom(_, _)
\* Utf8Error::valid_up_to when decoding starts at index i (1-based);
\* Len(s) when everything from i on is well-formed
ValidFrom(s, i) ==
    IF i > Len(s) THEN Len(s)
    ELSE LET w == CharLenAt(s, i) IN
         IF w = 0 THEN i - 1 ELSE ValidFrom(s, i + w)

\* str::from_utf8(s): Ok iff valid_up_to = Len(s)
ValidUpTo(s) == ValidFrom(s, 1)
IsUtf8(s) == ValidUpTo(s) = Len(s)

\* str::lines().count() of a decoded text: one line per LF, plus the
\* trailing line that is not terminated
LinesCount(s) ==
    Cardinality({i \in 1..Len(s) : s[i] = 10})
      + (IF Len(s) > 0 /\ s[Len(s)] # 10 THEN 1 ELSE 0)

(***************************************************************************)
(* read_and_count_lines (read.rs:138-191).                                 *)
(* A file is [open_ok, content, sched]: whether File::open succeeds, the   *)
(* bytes, and the outcomes of the first reader.read calls: -1 is an I/O    *)
(* error, k >= 1 a read that delivers at most k bytes (a short read);      *)
(* once sched is used up every read fills the buffer.                      *)
(* A result is [ok, lines]: Ok(lines), or Err when ok is FALSE.            *)
(***************************************************************************)
Ok(n) == [ok |-> TRUE, lines |-> n]
Err == [ok |-> FALSE, lines |-> 0]

\* reader.read(&mut buffer) at read.rs:152: -1 for Err, else bytes_read
BytesRead(rest, sched) ==
    IF sched # <<>> /\ Head(sched) = -1 THEN -1
    ELSE Min(IF sched # <<>> THEN Min(Head(sched), CHUNK_SIZE) ELSE CHUNK_SIZE,
             Len(rest))

\* a variant that keeps the lines counted so far when the leftover bytes
\* do not decode
FinishLeftoverKeepsCount(leftover, lines) ==
    IF leftover # <<>> /\ IsUtf8(leftover)
    THEN Ok(lines + LinesCount(leftover))
    ELSE Ok(lines)

\* read.rs:180-190: the leftover bytes at end of stream
FinishLeftover(leftover, lines) ==
    IF leftover # <<>>
    THEN IF IsUtf8(leftover)
         THEN Ok(lines + LinesCount(leftover))
         ELSE Ok(0)
    ELSE Ok(lines)

RECURSIVE CountLoop(_, _, _, _)
\* read.rs:151-178: the loop over the chunks; rest is the unread content
CountLoop(rest, sched, leftover, lines) ==
    LET bytes_read == BytesRead(rest, sched) IN
    IF bytes_read = -1 THEN Err
    ELSE IF bytes_read = 0 THEN FinishLeftover(leftover, lines)
    ELSE LET chunk == leftover \o SubSeq(rest, 1, bytes_read)
             unread == SubSeq(rest, bytes_read + 1, Len(rest))
             later == IF sched = <<>> THEN <<>> ELSE Tail(sched)
             valid_up_to == ValidUpTo(chunk)
         IN IF valid_up_to = Len(chunk)
            THEN CountLoop(unread, later, <<>>, lines + LinesCount(chunk))
            ELSE IF valid_up_to = 0
            THEN Ok(0)
            ELSE CountLoop(unread, later,
                           SubSeq(chunk, valid_up_to + 1, Len(chunk)),
                           lines + LinesCount(SubSeq(chunk, 1, valid_up_to)))

\* read.rs:138-191
ReadAndCountLines(file) ==
    IF ~file.open_ok THEN Err
    ELSE CountLoop(file.content, file.sched, <<>>, 0)

(***************************************************************************)
(* The file system seen by one walk.  A node is what a DirEntry leads to:  *)
(*   meta_ok  whether entry.metadata() succeeds                            *)
(*   kind     "file", "dir" or "other" (neither is_file nor is_dir)        *)
(*   msize    metadata.file_size()                                         *)
(*   file     the file behind a "file" node (see ReadAndCountLines)        *)
(*   list_ok  whether fs::read_dir succeeds on a "dir" node                *)
(*   items    the results the ReadDir iterator yields, in order: ItemErr   *)
(*            for an Err, ItemOk(node) for a DirEntry                      *)
(* A DirEntry is [path, node]; path is the sequence of listing positions   *)
(* from the scan root and stands for both entry.path() and file_name().    *)
(***************************************************************************)
ItemErr == <<>>
ItemOk(node) == <<node>>

NoFile == [open_ok |-> FALSE, content |-> <<>>, sched |-> <<>>]

FileNode(f) ==
    [meta_ok |-> TRUE, kind |-> "file", msize |-> Len(f.content), file |-> f,
     list_ok |-> FALSE, items |-> <<>>]
DirNode(m, lok, its) ==
    [meta_ok |-> TRUE, kind |-> "dir", msize |-> m, file |-> NoFile,
     list_ok |-> lok, items |-> its]
OtherNode ==
    [meta_ok |-> TRUE, kind |-> "other", msize |-> 1, file |-> NoFile,
     list_ok |-> FALSE, items |-> <<>>]
MetaFailNode ==
    [meta_ok |-> FALSE, kind |-> "file", msize |-> 1, file |-> NoFile,
     list_ok |-> FALSE, items |-> <<>>]

(***************************************************************************)
(* FsEntry (entry.rs:5-20).  read.rs builds Unknown without a size, so an  *)
(* Unknown entry of a walk has size None.                                  *)
(***************************************************************************)
FileEntry(name, size, lines) ==
    [type |-> "File", name |-> name, size |-> Some(size), lines |-> lines,
     children |-> None]
DirEntry(name, size, children) ==
    [type |-> "Dir", name |-> name, size |-> Some(size), lines |-> None,
     children |-> children]
UnknownEntry(name) ==
    [type |-> "Unknown", name |-> name, size |-> None, lines |-> None,
     children |-> None]

\* FsEntry::size (entry.rs:38-43)
FsEntrySize(fse) == fse.size

\* the errors pushed by the walk (read.rs:67, 79, 102, 120)
MetadataError(path) == [kind |-> "metadata", at |-> path]
LinesError(path) == [kind |-> "lines", at |-> path]
DirEntryError(path) == [kind |-> "dir_entry", at |-> path]
ReadDirError(path) == [kind |-> "read_dir", at |-> path]

\* the error pushed for a name that is not valid Unicode (main.rs:252-255)
NameError(path) == [kind |-> "name", at |-> path]
\* the error pushed when get_size fails (main.rs:260)
SizeError(path) == [kind |-> "size", at |-> path]

\* a variant that leaves the loop at the first Err item
AfterItemErrBreaks(items, i) == Len(items) + 1

\* read.rs:101-107: an Err item of the listing is recorded and the loop
\* continues with the next item
AfterItemErr(items, i) == i + 1

\* read.rs:112-114: a child's size joins the sum when it is Some
AddChildSize(size, fse) ==
    IF IsSome(FsEntrySize(fse)) THEN size + Unwrap(FsEntrySize(fse)) ELSE size

\* a variant in which a failure to count is reported as a count of 0
ReadFileZeroOnError(entry, count_lines, errors) ==
    LET counted == ReadAndCountLines(entry.node.file)
        lines == IF count_lines
                 THEN Some(IF counted.ok THEN counted.lines ELSE 0)
                 ELSE None
    IN [fse |-> FileEntry(entry.path, entry.node.msize, lines),
        errors |-> IF count_lines /\ ~counted.ok
                   THEN Append(errors, LinesError(entry.path))
                   ELSE errors]

\* a variant that counts lines whatever the flag says
ReadFileIgnoresFlag(entry, count_lines, errors) ==
    LET counted == ReadAndCountLines(entry.node.file)
        lines == IF counted.ok THEN Some(counted.lines) ELSE None
    IN [fse |-> FileEntry(entry.path, entry.node.msize, lines),
        errors |-> IF ~counted.ok
                   THEN Append(errors, LinesError(entry.path))
                   ELSE errors]

\* read.rs:74-91: the File branch
ReadFile(entry, count_lines, errors) ==
    LET counted == ReadAndCountLines(entry.node.file)
        lines == IF count_lines /\ counted.ok THEN Some(counted.lines) ELSE None
    IN [fse |-> FileEntry(entry.path, entry.node.msize, lines),
        errors |-> IF count_lines /\ ~counted.ok
                   THEN Append(errors, LinesError(entry.path))
                   ELSE errors]

\* a variant that records the metadata error and goes on to count the
\* lines of the node
OnMetadataErrorGoesOn(entry, count_lines, errors) ==
    ReadFile(entry, count_lines, Append(errors, MetadataError(entry.path)))

\* read.rs:66-72: entry.metadata() fails: the error is pushed and the
\* function returns
OnMetadataError(entry, count_lines, errors) ==
    [fse |-> UnknownEntry(entry.path),
     errors |-> Append(errors, MetadataError(entry.path))]

\* a variant that reports a directory it could not list as an empty one
OnReadDirErrorEmptyDir(entry, errors) ==
    [fse |-> DirEntry(entry.path, entry.node.msize, Some(<<>>)),
     errors |-> Append(errors, ReadDirError(entry.path))]

\* read.rs:119-132: fs::read_dir fails: the error is pushed, children stays
\* None and size is metadata.file_size()
OnReadDirError(entry, errors) ==
    [fse |-> DirEntry(entry.path, entry.node.msize, None),
     errors |-> Append(errors, ReadDirError(entry.path))]

RECURSIVE ReadEntryRecursive(_, _, _)
RECURSIVE ReadChildren(_, _, _, _)

\* a variant in which the errors of a child's walk stay in a list of the
\* child's own and are dropped with it
ReadChildrenDropsErrors(entry, i, count_lines, acc) ==
    LET items == entry.node.items IN
    IF i > Len(items) THEN acc
    ELSE IF items[i] = ItemErr
    THEN ReadChildren(entry, AfterItemErr(items, i), count_lines,
                      [acc EXCEPT !.errors =
                                    Append(@, DirEntryError(entry.path))])
    ELSE LET en == [path |-> Append(entry.path, i), node |-> items[i][1]]
             r == ReadEntryRecursive(en, count_lines, <<>>)
         IN ReadChildren(entry, i + 1, count_lines,
                         [size |-> AddChildSize(acc.size, r.fse),
                          children |-> Append(acc.children, r.fse),
                          errors |-> acc.errors])

\* read.rs:100-116: the loop over the listing of a directory, from item i;
\* acc is [size, children, errors]
ReadChildren(entry, i, count_lines, acc) ==
    LET items == entry.node.items IN
    IF i > Len(items) THEN acc
    ELSE IF items[i] = ItemErr
    THEN ReadChildren(entry, AfterItemErr(items, i), count_lines,
                      [acc EXCEPT !.errors = Append(@, DirEntryError(entry.path))])
    ELSE LET en == [path |-> Append(entry.path, i), node |-> items[i][1]]
             r == ReadEntryRecursive(en, count_lines, acc.errors)
         IN ReadChildren(entry, i + 1, count_lines,
                         [size |-> AddChildSize(acc.size, r.fse),
                          children |-> Append(acc.children, r.fse),
                          errors |-> r.errors])

\* read.rs:59-136
ReadEntryRecursive(entry, count_lines, errors) ==
    LET node == entry.node
        name == entry.path
    IN IF ~node.meta_ok
       THEN OnMetadataError(entry, count_lines, errors)
       ELSE IF node.kind = "file"
       THEN ReadFile(entry, count_lines, errors)
       ELSE IF node.kind = "dir"
       THEN IF node.list_ok
            THEN LET acc == ReadChildren(entry, 1, count_lines,
                                         [size |-> node.msize,
                                          children |-> <<>>,
                                          errors |-> errors])
                 IN [fse |-> DirEntry(name, acc.size, Some(acc.children)),
                     errors |-> acc.errors]
            ELSE OnReadDirError(entry, errors)
       ELSE [fse |-> UnknownEntry(name), errors |-> errors]

(***************************************************************************)
(* Inputs.                                                                 *)
(***************************************************************************)
SeqsUpTo(S, n) == UNION {[1..k -> S] : k \in 0..n}

\* outcomes of one reader.read call: an error, or a read of at most k bytes
ReadOutcomes == {-1} \cup 1..CHUNK_SIZE
\* the read schedules explored: every read full, or the first reads short
\* or failing
Scheds == SeqsUpTo(ReadOutcomes, MaxShortReads)

\* the files handed to read_and_count_lines on its own
LcFiles ==
    {[open_ok |-> FALSE, content |-> <<>>, sched |-> <<>>]}
      \cup [open_ok : {TRUE}, content : SeqsUpTo(Bytes, MaxFileLen),
             sched : Scheds]

\* the files counted step by step: every read full, or the first read short
\* or failing
ChunkFiles ==
    {[open_ok |-> FALSE, content |-> <<>>, sched |-> <<>>]}
      \cup [open_ok : {TRUE}, content : SeqsUpTo(Bytes, MaxFileLen),
             sched : SeqsUpTo(ReadOutcomes, 1)]

\* the files found in walked trees
TextFile == [open_ok |-> TRUE, content |-> <<97, 10>>, sched |-> <<>>]
Unopenable == [open_ok |-> FALSE, content |-> <<97>>, sched |-> <<>>]
\* a file whose second read fails, after a first read of one byte
ReadFails == [open_ok |-> TRUE, content |-> <<10, 97>>, sched |-> <<1, -1>>]
\* a file that is not UTF-8
BinaryFile == [open_ok |-> TRUE, content |-> <<255>>, sched |-> <<>>]

\* metadata.file_size() of a directory
DirSizes == {0, 1}

\* a directory whose metadata cannot be read although it lists a file
MetaFailDir ==
    [DirNode(1, TRUE, <<ItemOk(FileNode(TextFile))>>) EXCEPT !.meta_ok = FALSE]

WalkLeaves ==
    {FileNode(TextFile), FileNode(Unopenable), FileNode(ReadFails),
     FileNode(BinaryFile), OtherNode, MetaFailNode, MetaFailDir}
ItemsOf(nodes) == {ItemErr} \cup {ItemOk(n) : n \in nodes}
DirsOver(nodes, width) ==
    {DirNode(m, FALSE, <<>>) : m \in DirSizes}
      \cup {DirNode(m, TRUE, its) :
               m \in DirSizes, its \in SeqsUpTo(ItemsOf(nodes), width)}
\* directories nested in the walked tree list at most one item
NestedDirs == DirsOver(WalkLeaves, 1)
WalkNodes == WalkLeaves \cup DirsOver(WalkLeaves \cup NestedDirs, MaxChildren)

\* the top-level entries of a scan: entry i is sample i (mod 3)
PoolNode(i) ==
    IF i % 3 = 1 THEN FileNode(TextFile)
    ELSE IF i % 3 = 2
    THEN DirNode(0, TRUE, <<ItemErr, ItemOk(FileNode(Unopenable)),
                            ItemOk(FileNode(TextFile))>>)
    ELSE MetaFailNode

NoResult == [fse |-> UnknownEntry(<<>>), errors |-> <<>>]

\* the target path of a run: absent, a regular file, a directory, or a
\* directory that fs::read_dir cannot list
RootKinds == {"missing", "file", "dir", "unlistable"}

\* the items of the listing of the target directory (main.rs:194-223): an
\* Err item, or a DirEntry that the filter keeps, skips, or cannot match
ListErr == [res |-> "err", filter |-> "skip", node |-> OtherNode]
Kept(node) == [res |-> "ok", filter |-> "keep", node |-> node]
Skipped(node) == [res |-> "ok", filter |-> "skip", node |-> node]
Unmatchable(node) == [res |-> "ok", filter |-> "error", node |-> node]

\* the errors pushed while the target directory is listed (main.rs:205, 219)
FilterError == [kind |-> "filter", at |-> <<>>]
ListItemError == [kind |-> "list_item", at |-> <<>>]

RECURSIVE ListEntries(_, _)
\* main.rs:194-223: filter_map over the listing; acc is [entries, errors]
ListEntries(listing, acc) ==
    IF listing = <<>> THEN acc
    ELSE LET item == Head(listing) IN
         ListEntries(Tail(listing),
            IF item.res = "err"
            THEN [acc EXCEPT !.errors = Append(@, ListItemError)]
            ELSE IF item.filter = "keep"
            THEN [acc EXCEPT !.entries = Append(@, item.node)]
            ELSE IF item.filter = "error"
            THEN [acc EXCEPT !.errors = Append(@, FilterError)]
            ELSE acc)
Listed(listing) == ListEntries(listing, [entries |-> <<>>, errors |-> <<>>])

\* the listings of the target directory: nothing or three items that yield
\* no entry, then the sample entries
PoolListings ==
    {prefix \o [i \in 1..k |-> Kept(PoolNode(i))] :
        prefix \in {<<>>, <<ListErr, Skipped(OtherNode),
                            Unmatchable(FileNode(TextFile))>>},
        k \in 0..MaxEntries}

\* the entries handed to apply_entry on its own: every variant of FsEntry,
\* with sizes of one, two and three digits and names of one to three bytes;
\* the type allows an Unknown entry with a size (entry.rs:16-19)
StatEntries ==
    {FileEntry(<<1>>, 2, Some(1)),
     FileEntry(<<1, 1>>, 10, None),
     DirEntry(<<1, 1, 1>>, 3, None),
     UnknownEntry(<<1>>),
     [UnknownEntry(<<1, 1>>) EXCEPT !.size = Some(100)]}

(***************************************************************************)
(* ScanStats (stats.rs): the aggregate the consumer folds the top-level    *)
(* results into.  The sums stay far below 2^64 in every state explored.    *)
(***************************************************************************)
RECURSIVE CountDigits(_)
\* utils.rs:1-12: the number of decimal digits of n; 0 has one digit
CountDigits(n) == IF n < 10 THEN 1 ELSE 1 + CountDigits(n \div 10)

\* #[derive(Default)] (stats.rs:3-13)
DefaultStats ==
    [total_size |-> 0, total_lines |-> 0, max_size |-> 0,
     max_size_digits |-> 0, max_name_len |-> 0,
     dir_count |-> 0, file_count |-> 0, unknown_count |-> 0]

\* OsStr::to_str succeeds (entry.rs:32-34).  A name is a sequence of units,
\* one per byte; for a walked entry it is the path, whose last unit stands
\* for the file name.  A unit below 1 is one that is not valid Unicode.
Decodable(name) == name = <<>> \/ name[Len(name)] >= 1

\* FsEntry::UNKNOWN_ENTRY (entry.rs:23): the bytes of "[Unknown Entry]"
UNKNOWN_ENTRY ==
    <<91, 85, 110, 107, 110, 111, 119, 110, 32, 69, 110, 116, 114, 121, 93>>

\* FsEntry::name_str (entry.rs:31-36)
NameStr(fse) == IF Decodable(fse.name) THEN fse.name ELSE UNKNOWN_ENTRY

\* fse.name_str().len() (stats.rs:17)
NameStrLen(fse) == Len(NameStr(fse))

\* a variant in which the latest value replaces the maximum
TrackMaxLastWins(cur, v) == v

\* stats.rs:18-20, 24-26, 29-31: if v > self.max { self.max = v }
TrackMax(cur, v) == IF v > cur THEN v ELSE cur

\* a variant in which an absent size is taken to be 0 (unwrap_or(0))
ApplySizeNoneAsZero(stats, size) ==
    LET sz == IF IsSome(size) THEN Unwrap(size) ELSE 0
    IN [stats EXCEPT !.total_size = @ + sz,
                     !.max_size = TrackMax(@, sz),
                     !.max_size_digits = TrackMax(@, CountDigits(sz))]

\* stats.rs:22-32: the size, when the entry has one, joins the sum and the
\* two maxima
ApplySize(stats, size) ==
    IF IsSome(size)
    THEN [stats EXCEPT !.total_size = @ + Unwrap(size),
                       !.max_size = TrackMax(@, Unwrap(size)),
                       !.max_size_digits = TrackMax(@, CountDigits(Unwrap(size)))]
    ELSE stats

\* stats.rs:34-38: only a File entry has a lines field; it joins the total
\* when it is Some
ApplyLines(stats, fse) ==
    IF fse.type = "File" /\ IsSome(fse.lines)
    THEN [stats EXCEPT !.total_lines = @ + Unwrap(fse.lines)]
    ELSE stats

\* a variant that does not count Unknown entries
ApplyCountSkipsUnknown(stats, fse) ==
    IF fse.type = "File" THEN [stats EXCEPT !.file_count = @ + 1]
    ELSE IF fse.type = "Dir" THEN [stats EXCEPT !.dir_count = @ + 1]
    ELSE stats

\* stats.rs:40-44
ApplyCount(stats, fse) ==
    IF fse.type = "File" THEN [stats EXCEPT !.file_count = @ + 1]
    ELSE IF fse.type = "Dir" THEN [stats EXCEPT !.dir_count = @ + 1]
    ELSE [stats EXCEPT !.unknown_count = @ + 1]

\* ScanStats::apply_entry (stats.rs:16-45)
ApplyEntry(stats, fse) ==
    LET named == [stats EXCEPT !.max_name_len = TrackMax(@, NameStrLen(fse))]
    IN ApplyCount(ApplyLines(ApplySize(named, FsEntrySize(fse)), fse), fse)

RECURSIVE FoldEntries(_, _)
\* apply_entry called on the entries of a sequence from first to last
FoldEntries(stats, fses) ==
    IF fses = <<>> THEN stats
    ELSE FoldEntries(ApplyEntry(stats, Head(fses)), Tail(fses))

(***************************************************************************)
(* sort_entries (entry.rs:53-78).  An Ordering is "Less", "Equal" or       *)
(* "Greater".                                                              *)
(***************************************************************************)
CmpNat(a, b) == IF a < b THEN "Less" ELSE IF a > b THEN "Greater" ELSE "Equal"

RECURSIVE CmpStr(_, _)
\* Ord for str: the bytes are compared one by one, a proper prefix is less
CmpStr(a, b) ==
    IF a = <<>> /\ b = <<>> THEN "Equal"
    ELSE IF a = <<>> THEN "Less"
    ELSE IF b = <<>> THEN "Greater"
    ELSE IF Head(a) # Head(b) THEN CmpNat(Head(a), Head(b))
    ELSE CmpStr(Tail(a), Tail(b))

\* Ord for Option<u64>: None is less than every Some
CmpOption(a, b) ==
    IF a = None /\ b = None THEN "Equal"
    ELSE IF a = None THEN "Less"
    ELSE IF b = None THEN "Greater"
    ELSE CmpNat(Unwrap(a), Unwrap(b))

\* str::to_lowercase on ASCII letters
ToLowercase(str) ==
    [k \in DOMAIN str |-> IF str[k] \in 65..90 THEN str[k] + 32 ELSE str[k]]

\* entry.rs:55-59
CompareName(a, b) ==
    CmpStr(ToLowercase(NameStr(a)), ToLowercase(NameStr(b)))

\* a variant that puts the smaller size first
CompareSizeAscending(a, b) == CmpOption(FsEntrySize(a), FsEntrySize(b))

\* entry.rs:60: b.size().cmp(&a.size())
CompareSize(a, b) == CmpOption(FsEntrySize(b), FsEntrySize(a))

\* entry.rs:62-66
CmpVal(fse) ==
    IF fse.type = "Dir" THEN 0 ELSE IF fse.type = "File" THEN 1 ELSE 2

\* entry.rs:61-68
CompareType(a, b) == CmpNat(CmpVal(a), CmpVal(b))

\* Ordering::reverse
OrderingReverse(o) ==
    IF o = "Less" THEN "Greater" ELSE IF o = "Greater" THEN "Less" ELSE o

\* entry.rs:54-69, 71-77: the closure handed to sort_by
SortCompare(a, b, sort_by, reverse) ==
    LET ordering == IF sort_by = "Name" THEN CompareName(a, b)
                    ELSE IF sort_by = "Size" THEN CompareSize(a, b)
                    ELSE CompareType(a, b)
    IN IF reverse THEN OrderingReverse(ordering) ELSE ordering

RECURSIVE InsertSorted(_, _, _, _)
\* x is put behind every element of the sorted slice that is not Greater
\* than x
InsertSorted(sorted, x, sort_by, reverse) ==
    IF sorted = <<>> THEN <<x>>
    ELSE IF SortCompare(Head(sorted), x, sort_by, reverse) = "Greater"
    THEN <<x>> \o sorted
    ELSE <<Head(sorted)>> \o InsertSorted(Tail(sorted), x, sort_by, reverse)

RECURSIVE SortBy(_, _, _, _)
\* slice::sort_by (entry.rs:71): a stable sort; the elements of todo are
\* inserted one by one, from first to last
SortBy(sorted, todo, sort_by, reverse) ==
    IF todo = <<>> THEN sorted
    ELSE SortBy(InsertSorted(sorted, Head(todo), sort_by, reverse),
                Tail(todo), sort_by, reverse)

\* sort_entries (entry.rs:53-78)
SortEntries(fses, sort_by, reverse) == SortBy(<<>>, fses, sort_by, reverse)

\* the entries handed to sort_entries on its own: names "b", "B", "a", "c"
\* and one that is not valid Unicode; sizes that tie, differ or are absent
SortSamples ==
    {FileEntry(<<98>>, 2, None),
     FileEntry(<<66>>, 2, Some(1)),
     DirEntry(<<97>>, 5, None),
     UnknownEntry(<<99>>),
     UnknownEntry(<<0>>)}

(***************************************************************************)
(* State.                                                                  *)
(***************************************************************************)
(***************************************************************************)
(* get_size (main.rs:418-431, the same function as size.rs:3-16) and the   *)
(* worker closure of main that calls it (main.rs:249-274).  The FsEntry of *)
(* main.rs:107-111 is [name, size, is_dir].  A call of get_size returns    *)
(* [ok, size, visited]: visited is the sequence of the paths get_size was  *)
(* called on, in the order of the calls.                                   *)
(***************************************************************************)
SizeOk(n, visited) == [ok |-> TRUE, size |-> n, visited |-> visited]
\* an Err carries no sum
SizeErr(visited) == [ok |-> FALSE, size |-> 0, visited |-> visited]

\* Path::is_file and Path::is_dir: false when the metadata cannot be read
PathIsFile(node) == node.meta_ok /\ node.kind = "file"
PathIsDir(node) == node.meta_ok /\ node.kind = "dir"

RECURSIVE GetSize(_, _)
RECURSIVE GetSizeItems(_, _, _, _, _)

\* a variant of the loop that skips what it cannot read and keeps the sum
GetSizeItemsSkipsFailures(path, items, j, size, visited) ==
    IF j > Len(items) THEN SizeOk(size, visited)
    ELSE IF items[j] = ItemErr
    THEN GetSizeItems(path, items, j + 1, size, visited)
    ELSE LET r == GetSize(Append(path, j), items[j][1])
         IN GetSizeItems(path, items, j + 1, size + r.size,
                         visited \o r.visited)

\* main.rs:424-427: the loop over the listing from item j on; an Err item
\* and an Err of the recursive call leave the function through `?`
GetSizeItems(path, items, j, size, visited) ==
    IF j > Len(items) THEN SizeOk(size, visited)
    ELSE IF items[j] = ItemErr THEN SizeErr(visited)
    ELSE LET r == GetSize(Append(path, j), items[j][1])
         IN IF ~r.ok THEN SizeErr(visited \o r.visited)
            ELSE GetSizeItems(path, items, j + 1, size + r.size,
                              visited \o r.visited)

\* main.rs:418-431: the length of a file (the metadata is_file has just
\* read is read again), the sum over the listing of a directory, 0 for
\* anything else
GetSize(path, node) ==
    IF PathIsFile(node) THEN SizeOk(node.msize, <<path>>)
    ELSE IF PathIsDir(node)
    THEN IF ~node.list_ok THEN SizeErr(<<path>>)
         ELSE GetSizeItems(path, node.items, 1, 0, <<path>>)
    ELSE SizeOk(0, <<path>>)

\* main.rs:251-257: the name of the entry, UNKNOWN_ENTRY if it does not
\* decode
ClosureName(entry) ==
    IF Decodable(entry.path) THEN entry.path ELSE UNKNOWN_ENTRY

\* main.rs:249-274: the closure a worker thread of main runs: the name,
\* the size (0 and an error if get_size fails), is_dir (None and an error
\* if the metadata cannot be read); call is the call of get_size it made
WorkerClosure(entry) ==
    LET sz == GetSize(entry.path, entry.node)
    IN [fse |-> [name |-> ClosureName(entry),
                 size |-> IF sz.ok THEN sz.size ELSE 0,
                 is_dir |-> IF entry.node.meta_ok
                            THEN Some(entry.node.kind = "dir") ELSE None],
        errs |-> (IF ClosureName(entry) = entry.path THEN <<>>
                  ELSE <<NameError(entry.path)>>)
                 \o (IF sz.ok THEN <<>> ELSE <<SizeError(entry.path)>>)
                 \o (IF entry.node.meta_ok THEN <<>>
                      ELSE <<MetadataError(entry.path)>>),
        call |-> sz]

\* the value of gs_res before the closure has run
NoSizeResult ==
    [fse |-> [name |-> <<>>, size |-> 0, is_dir |-> None], errs |-> <<>>,
     call |-> SizeOk(0, <<>>)]

VARIABLES
    lc_pc,          \* line counter: "idle", "start", "done"
    lc_file,        \* the file handed to read_and_count_lines
    lc_res,         \* its result
    wk_pc,          \* walk: "idle", "start", "done"
    wk_entry,       \* the DirEntry handed to read_entry_recursive
    wk_count_lines, \* its count_lines argument
    wk_res,         \* [fse, errors]: the entry returned and the error list
    main_pc,        \* main: "check", "list", "scan", "aborted"; "idle"
    root,           \* main: the kind of the target path
    listing,        \* main: what fs::read_dir yields for the target path
    entries,        \* spawn_readers: the top-level nodes, entry i at path <<i>>
    max_threads,    \* spawn_readers: None or Some(n)
    count_lines,    \* spawn_readers: the count_lines flag
    sem_count,      \* Semaphore.mu: the count of admitted workers
    disp_pc,        \* spawn_readers: "lock", "wait", "spawn", "returned";
                    \*   "unborn" before it is called
    disp_i,         \* spawn_readers: position of the for loop in entries
    w_pc,           \* per worker thread: "idle", "reading", "send",
                    \*   "unlock", "exit", "done", "panicked"
    w_res,          \* per worker thread: (fse, errs) once the walk is over
    chan,           \* the mpsc channel: pairs sent and not yet received
    sent,           \* history: every pair sent, in the order of the sends
    cons_pc,        \* consumer: "waiting", "joining", "finished";
                    \*   "unborn" before the channel exists
    received,       \* the pairs the consumer's loop has taken from rx
    results,        \* consumer: the entries collected
    errors,         \* consumer: the global error list
    stats,          \* consumer: the ScanStats
    st_pc,          \* aggregation on its own: "idle", "folding"
    st_todo,        \* the entries handed to apply_entry, as a sequence
    st_done,        \* the positions of st_todo already applied
    st_stats,       \* the ScanStats they are folded into
    so_pc,          \* sort_entries on its own: "idle", "start", "done"
    so_in,          \* the slice handed to sort_entries
    so_by,          \* its sort_by argument: "Name", "Size", "Type"
    so_rev,         \* its reverse argument
    so_out,         \* the slice after the call
    ch_pc,          \* the chunk loop step by step: "idle", "loop", "done"
    ch_file,        \* the file being counted
    ch_rest,        \* its content not yet read
    ch_sched,       \* the outcomes of the reads to come
    ch_leftover,    \* leftover
    ch_lines,       \* lines
    ch_res,         \* the value returned
    gs_pc,          \* the closure of main on its own: "idle", "start", "done"
    gs_entry,       \* the DirEntry it works on
    gs_res          \* [fse, errs, call]: what it sends, and its get_size call

vars == <<lc_pc, lc_file, lc_res, wk_pc, wk_entry, wk_count_lines, wk_res,
          main_pc, root, listing,
          entries, max_threads, count_lines, sem_count, disp_pc, disp_i,
          w_pc, w_res, chan, sent, cons_pc, received, results, errors, stats,
          st_pc, st_todo, st_done, st_stats,
          so_pc, so_in, so_by, so_rev, so_out,
          ch_pc, ch_file, ch_rest, ch_sched, ch_leftover, ch_lines, ch_res,
          gs_pc, gs_entry, gs_res>>

lcVars == <<lc_pc, lc_file, lc_res>>
wkVars == <<wk_pc, wk_entry, wk_count_lines, wk_res>>
inputVars == <<main_pc, root, listing, entries, max_threads, count_lines>>
dispVars == <<sem_count, disp_pc, disp_i>>
consVars == <<cons_pc, received, results, errors, stats>>
poolVars == <<inputVars, dispVars, w_pc, w_res, chan, sent, consVars>>
stVars == <<st_pc, st_todo, st_done, st_stats>>
soVars == <<so_pc, so_in, so_by, so_rev, so_out>>
chVars == <<ch_pc, ch_file, ch_rest, ch_sched, ch_leftover, ch_lines, ch_res>>
gsVars == <<gs_pc, gs_entry, gs_res>>
auxVars == <<stVars, soVars, chVars, gsVars>>

LcIdle == lc_pc = "idle" /\ lc_file = NoFile /\ lc_res = Err
WkIdle ==
    /\ wk_pc = "idle"
    /\ wk_entry = [path |-> <<1>>, node |-> OtherNode]
    /\ wk_count_lines = FALSE
    /\ wk_res = NoResult
PoolIdle ==
    /\ main_pc = "idle" /\ root = "dir" /\ listing = <<>>
    /\ entries = <<>> /\ max_threads = None /\ count_lines = FALSE
    /\ sem_count = 0 /\ disp_pc = "returned" /\ disp_i = 1
    /\ w_pc = <<>> /\ w_res = <<>> /\ chan = <<>> /\ sent = <<>>
    /\ cons_pc = "finished" /\ received = <<>> /\ results = <<>>
    /\ errors = <<>> /\ stats = DefaultStats
StIdle ==
    /\ st_pc = "idle" /\ st_todo = <<>> /\ st_done = {}
    /\ st_stats = DefaultStats
SoIdle ==
    /\ so_pc = "idle" /\ so_in = <<>> /\ so_by = "Name" /\ so_rev = FALSE
    /\ so_out = <<>>
GsIdle ==
    /\ gs_pc = "idle"
    /\ gs_entry = [path |-> <<1>>, node |-> OtherNode]
    /\ gs_res = NoSizeResult
ChIdle ==
    /\ ch_pc = "idle" /\ ch_file = NoFile /\ ch_rest = <<>>
    /\ ch_sched = <<>> /\ ch_leftover = <<>> /\ ch_lines = 0 /\ ch_res = Err

(***************************************************************************)
(* The line counter on its own.                                            *)
(***************************************************************************)
InitLines ==
    /\ lc_pc = "start"
    /\ lc_file \in LcFiles
    /\ lc_res = Err
    /\ WkIdle /\ PoolIdle /\ StIdle /\ SoIdle /\ ChIdle
    /\ GsIdle

\* one call of read_and_count_lines (read.rs:138-191)
CountLines ==
    /\ lc_pc = "start"
    /\ lc_res' = ReadAndCountLines(lc_file)
    /\ lc_pc' = "done"
    /\ UNCHANGED <<lc_file, wkVars, poolVars, auxVars>>

NextLines == CountLines
SpecLines == InitLines /\ [][NextLines]_vars

(***************************************************************************)
(* The line counter step by step: File::open, then one step per iteration  *)
(* of the loop, then the code after the loop.  ch_pc is "open", "loop",    *)
(* "finish", and once the function has returned: "done" (Ok(lines)),       *)
(* "binary" (Ok(0) because bytes did not decode), "failed" (Err).          *)
(***************************************************************************)
InitChunks ==
    /\ ch_pc = "open"
    /\ ch_file \in ChunkFiles
    /\ ch_rest = ch_file.content
    /\ ch_sched = ch_file.sched
    /\ ch_leftover = <<>>
    /\ ch_lines = 0
    /\ ch_res = Err
    /\ LcIdle /\ WkIdle /\ PoolIdle /\ StIdle /\ SoIdle
    /\ GsIdle

\* read.rs:139-148: File::open, the buffer, leftover and lines
ChunkOpen ==
    /\ ch_pc = "open"
    /\ ch_pc' = IF ch_file.open_ok THEN "loop" ELSE "failed"
    /\ UNCHANGED <<ch_file, ch_rest, ch_sched, ch_leftover, ch_lines, ch_res,
                   lcVars, wkVars, poolVars, gsVars, stVars, soVars>>

\* a variant that clears leftover after a partly valid chunk
LeftoverAfterCleared(chunk, valid_up_to) == <<>>

\* read.rs:175: leftover = chunk[valid_up_to..].to_vec()
LeftoverAfter(chunk, valid_up_to) == SubSeq(chunk, valid_up_to + 1, Len(chunk))

\* read.rs:151-178: one iteration of the loop
ChunkRead ==
    /\ ch_pc = "loop"
    /\ LET bytes_read == BytesRead(ch_rest, ch_sched)
           chunk == ch_leftover \o SubSeq(ch_rest, 1, bytes_read)
           valid_up_to == ValidUpTo(chunk)
       IN IF bytes_read = -1
          THEN /\ ch_pc' = "failed"
               /\ UNCHANGED <<ch_rest, ch_sched, ch_leftover, ch_lines, ch_res>>
          ELSE IF bytes_read = 0
          THEN /\ ch_pc' = "finish"
               /\ UNCHANGED <<ch_rest, ch_sched, ch_leftover, ch_lines, ch_res>>
          ELSE /\ ch_rest' = SubSeq(ch_rest, bytes_read + 1, Len(ch_rest))
               /\ ch_sched' = IF ch_sched = <<>> THEN <<>> ELSE Tail(ch_sched)
               /\ IF valid_up_to = Len(chunk)
                  THEN /\ ch_lines' = ch_lines + LinesCount(chunk)
                       /\ ch_leftover' = <<>>
                       /\ UNCHANGED <<ch_pc, ch_res>>
                  ELSE IF valid_up_to = 0
                  THEN /\ ch_pc' = "binary"
                       /\ ch_res' = Ok(0)
                       /\ UNCHANGED <<ch_leftover, ch_lines>>
                  ELSE /\ ch_lines' = ch_lines
                                        + LinesCount(SubSeq(chunk, 1, valid_up_to))
                       /\ ch_leftover' = LeftoverAfter(chunk, valid_up_to)
                       /\ UNCHANGED <<ch_pc, ch_res>>
    /\ UNCHANGED <<ch_file, lcVars, wkVars, poolVars, gsVars, stVars, soVars>>

\* read.rs:180-190: the leftover bytes at end of stream and the return
ChunkFinish ==
    /\ ch_pc = "finish"
    /\ ch_res' = FinishLeftover(ch_leftover, ch_lines)
    /\ ch_pc' = IF ch_leftover # <<>> /\ ~IsUtf8(ch_leftover)
                THEN "binary" ELSE "done"
    /\ UNCHANGED <<ch_file, ch_rest, ch_sched, ch_leftover, ch_lines,
                   lcVars, wkVars, poolVars, gsVars, stVars, soVars>>

NextChunks == ChunkOpen \/ ChunkRead \/ ChunkFinish
SpecChunks == InitChunks /\ [][NextChunks]_vars

(***************************************************************************)
(* One subtree walk on its own.                                            *)
(***************************************************************************)
InitWalk ==
    /\ wk_pc = "start"
    /\ wk_entry \in [path : {<<1>>, <<0>>}, node : WalkNodes]
    /\ wk_count_lines \in BOOLEAN
    /\ wk_res = NoResult
    /\ LcIdle /\ PoolIdle /\ StIdle /\ SoIdle /\ ChIdle
    /\ GsIdle

\* one call of read_entry_recursive with an empty error list
\* (read.rs:41-43)
Walk ==
    /\ wk_pc = "start"
    /\ wk_res' = ReadEntryRecursive(wk_entry, wk_count_lines, <<>>)
    /\ wk_pc' = "done"
    /\ UNCHANGED <<wk_entry, wk_count_lines, lcVars, poolVars, auxVars>>

NextWalk == Walk
SpecWalk == InitWalk /\ [][NextWalk]_vars

(***************************************************************************)
(* The worker closure of main on its own.                                  *)
(***************************************************************************)
InitSize ==
    /\ gs_pc = "start"
    /\ gs_entry \in [path : {<<1>>, <<0>>}, node : WalkNodes]
    /\ gs_res = NoSizeResult
    /\ LcIdle /\ WkIdle /\ PoolIdle /\ StIdle /\ SoIdle /\ ChIdle

\* one run of the closure (main.rs:249-274)
SizeEntry ==
    /\ gs_pc = "start"
    /\ gs_res' = WorkerClosure(gs_entry)
    /\ gs_pc' = "done"
    /\ UNCHANGED <<gs_entry, lcVars, wkVars, poolVars, stVars, soVars,
                   chVars>>

NextSize == SizeEntry
SpecSize == InitSize /\ [][NextSize]_vars

(***************************************************************************)
(* The aggregation on its own: apply_entry is called once per entry, in    *)
(* any order of arrival.                                                   *)
(***************************************************************************)
InitStats ==
    /\ st_pc = "folding"
    /\ st_todo \in SeqsUpTo(StatEntries, MaxEntries)
    /\ st_done = {}
    /\ st_stats = DefaultStats
    /\ LcIdle /\ WkIdle /\ PoolIdle /\ SoIdle /\ ChIdle
    /\ GsIdle

\* one call of ScanStats::apply_entry (stats.rs:16-45) on an entry not yet
\* applied
ApplyOne(k) ==
    /\ st_pc = "folding"
    /\ k \in DOMAIN st_todo \ st_done
    /\ st_stats' = ApplyEntry(st_stats, st_todo[k])
    /\ st_done' = st_done \cup {k}
    /\ UNCHANGED <<st_pc, st_todo, lcVars, wkVars, poolVars, gsVars, soVars, chVars>>

NextStats == \E k \in DOMAIN st_todo : ApplyOne(k)
SpecStats == InitStats /\ [][NextStats]_vars

(***************************************************************************)
(* sort_entries on its own.                                                *)
(***************************************************************************)
InitSort ==
    /\ so_pc = "start"
    /\ so_in \in SeqsUpTo(SortSamples, MaxEntries)
    /\ so_by \in {"Name", "Size", "Type"}
    /\ so_rev \in BOOLEAN
    /\ so_out = <<>>
    /\ LcIdle /\ WkIdle /\ PoolIdle /\ StIdle /\ ChIdle
    /\ GsIdle

\* one call of sort_entries (entry.rs:53-78)
Sort ==
    /\ so_pc = "start"
    /\ so_out' = SortEntries(so_in, so_by, so_rev)
    /\ so_pc' = "done"
    /\ UNCHANGED <<so_in, so_by, so_rev, lcVars, wkVars, poolVars, gsVars, stVars,
                   chVars>>

NextSort == Sort
SpecSort == InitSort /\ [][NextSort]_vars

(***************************************************************************)
(* The scan: spawn_readers (the dispatcher), its worker threads, the       *)
(* Semaphore and the consumer of the result channel.                       *)
(***************************************************************************)
\* the state in which main calls spawn_readers: the target directory has
\* been listed (main.rs:178-223), the global error list holds the errors of
\* the listing
Init ==
    /\ main_pc = "scan"
    /\ root = "dir"
    /\ listing \in PoolListings
    /\ entries = Listed(listing).entries
    /\ max_threads \in {None} \cup {Some(n) : n \in 0..MaxThreads}
    /\ count_lines \in BOOLEAN
    /\ sem_count = 0
    /\ disp_pc = "lock"
    /\ disp_i = 1
    /\ w_pc = [i \in DOMAIN entries |-> "idle"]
    /\ w_res = [i \in DOMAIN entries |-> NoResult]
    /\ chan = <<>>
    /\ sent = <<>>
    /\ cons_pc = "waiting"
    /\ received = <<>>
    /\ results = <<>>
    /\ errors = Listed(listing).errors
    /\ stats = DefaultStats
    /\ LcIdle /\ WkIdle /\ StIdle /\ SoIdle /\ ChIdle
    /\ GsIdle

\* a variant of the loop condition of Semaphore::lock in which a ceiling of
\* 0 stands for no ceiling
SemaphoreLockBlockedUnlessZero(count, n) == n > 0 /\ count >= n

\* a variant of the loop condition of Semaphore::lock that is off by one
SemaphoreLockBlockedOffByOne(count, n) == count > n

\* Semaphore::lock (sync.rs:20): the condition under which the caller waits
SemaphoreLockBlocked(count, n) == count >= n

\* a variant in which the worker threads hold no sender of their own
ChannelClosedAtReturn == disp_pc = "returned"

\* every Sender is dropped: tx when spawn_readers returns (read.rs:56), a
\* worker's clone (read.rs:38) when its thread ends
ChannelClosed ==
    /\ disp_pc = "returned"
    /\ \A i \in DOMAIN w_pc : w_pc[i] \in {"done", "panicked"}

\* a variant in which an absent ceiling stands for a ceiling of one
DispatcherLockDefaultCeiling ==
    /\ disp_pc = "lock"
    /\ disp_i <= Len(entries)
    /\ LET n == IF max_threads = None THEN 1 ELSE Unwrap(max_threads)
       IN IF SemaphoreLockBlocked(sem_count, n)
          THEN disp_pc' = "wait" /\ UNCHANGED sem_count
          ELSE disp_pc' = "spawn" /\ sem_count' = sem_count + 1
    /\ UNCHANGED <<disp_i, inputVars, w_pc, w_res, chan, sent, consVars,
                   lcVars, wkVars, auxVars>>

\* read.rs:29-36: the for loop takes the next entry and, with a ceiling,
\* calls Semaphore::lock (sync.rs:18-24); the mutex makes the test of the
\* count and the wait, or the increment, one step.  A waiting dispatcher is
\* woken by notify_one (see WorkerUnlock); a spurious return of
\* Condvar::wait only repeats the test and leads to no further state.
DispatcherLock ==
    /\ disp_pc = "lock"
    /\ disp_i <= Len(entries)
    /\ IF max_threads = None
       THEN disp_pc' = "spawn" /\ UNCHANGED sem_count
       ELSE IF SemaphoreLockBlocked(sem_count, Unwrap(max_threads))
       THEN disp_pc' = "wait" /\ UNCHANGED sem_count
       ELSE disp_pc' = "spawn" /\ sem_count' = sem_count + 1
    /\ UNCHANGED <<disp_i, inputVars, w_pc, w_res, chan, sent, consVars,
                   lcVars, wkVars, auxVars>>

\* read.rs:38-53: clone the sender, spawn the thread, keep the handle
DispatcherSpawn ==
    /\ disp_pc = "spawn"
    /\ w_pc' = [w_pc EXCEPT ![disp_i] = "reading"]
    /\ disp_i' = disp_i + 1
    /\ disp_pc' = "lock"
    /\ UNCHANGED <<sem_count, inputVars, w_res, chan, sent, consVars,
                   lcVars, wkVars, auxVars>>

\* read.rs:56: the loop is over; tx is dropped and rx goes to the caller
DispatcherReturn ==
    /\ disp_pc = "lock"
    /\ disp_i > Len(entries)
    /\ disp_pc' = "returned"
    /\ UNCHANGED <<sem_count, disp_i, inputVars, w_pc, w_res, chan, sent,
                   consVars, lcVars, wkVars, auxVars>>

\* a variant in which the threads append to one error list: the walk of
\* entry i starts from the errors its predecessor has recorded
WorkerReadSharedErrors(i) ==
    /\ w_pc[i] = "reading"
    /\ w_res' = [w_res EXCEPT ![i] =
                   ReadEntryRecursive([path |-> <<i>>, node |-> entries[i]],
                                      count_lines,
                                      IF i > 1 THEN w_res[i - 1].errors
                                      ELSE <<>>)]
    /\ w_pc' = [w_pc EXCEPT ![i] = "send"]
    /\ UNCHANGED <<inputVars, dispVars, chan, sent, consVars, lcVars,
                   wkVars, auxVars>>

\* read.rs:41-43: the thread walks its entry with an error list of its own
WorkerRead(i) ==
    /\ w_pc[i] = "reading"
    /\ w_res' = [w_res EXCEPT ![i] =
                   ReadEntryRecursive([path |-> <<i>>, node |-> entries[i]],
                                      count_lines, <<>>)]
    /\ w_pc' = [w_pc EXCEPT ![i] = "send"]
    /\ UNCHANGED <<inputVars, dispVars, chan, sent, consVars, lcVars,
                   wkVars, auxVars>>

\* a variant in which the channel hands out the newest pair first
WorkerSendToFront(i) ==
    /\ w_pc[i] = "send"
    /\ chan' = <<w_res[i]>> \o chan
    /\ sent' = Append(sent, w_res[i])
    /\ w_pc' = [w_pc EXCEPT ![i] = "unlock"]
    /\ UNCHANGED <<inputVars, dispVars, w_res, consVars, lcVars, wkVars,
                   auxVars>>

\* read.rs:45-48: the pair is sent; the channel is unbounded and its
\* receiver lives until the consumer has seen the channel closed, so the
\* send succeeds
WorkerSend(i) ==
    /\ w_pc[i] = "send"
    /\ chan' = Append(chan, w_res[i])
    /\ sent' = Append(sent, w_res[i])
    /\ w_pc' = [w_pc EXCEPT ![i] = "unlock"]
    /\ UNCHANGED <<inputVars, dispVars, w_res, consVars, lcVars, wkVars,
                   auxVars>>

\* a variant of Semaphore::unlock without notify_one
WorkerUnlockNoNotify(i) ==
    /\ w_pc[i] = "unlock"
    /\ IF max_threads = None
       THEN UNCHANGED sem_count
       ELSE sem_count' = sem_count - 1
    /\ w_pc' = [w_pc EXCEPT ![i] = "exit"]
    /\ UNCHANGED <<disp_pc, disp_i, inputVars, w_res, chan, sent, consVars,
                   lcVars, wkVars, auxVars>>

\* read.rs:50 and Semaphore::unlock (sync.rs:26-30): with a ceiling the
\* count is decremented and notify_one wakes the dispatcher if it waits
WorkerUnlock(i) ==
    /\ w_pc[i] = "unlock"
    /\ IF max_threads = None
       THEN UNCHANGED <<sem_count, disp_pc>>
       ELSE /\ sem_count' = sem_count - 1
            /\ disp_pc' = IF disp_pc = "wait" THEN "lock" ELSE disp_pc
    /\ w_pc' = [w_pc EXCEPT ![i] = "exit"]
    /\ UNCHANGED <<disp_i, inputVars, w_res, chan, sent, consVars,
                   lcVars, wkVars, auxVars>>

\* read.rs:51: the closure ends; its sender clone is dropped
WorkerExit(i) ==
    /\ w_pc[i] = "exit"
    /\ w_pc' = [w_pc EXCEPT ![i] = "done"]
    /\ UNCHANGED <<inputVars, dispVars, w_res, chan, sent, consVars,
                   lcVars, wkVars, auxVars>>

\* read.rs:40-51: a panic while the closure runs the walk unwinds the
\* thread: nothing is sent, unlock is not called (the closure has no
\* catch_unwind and Semaphore no guard), the sender clone is dropped
WorkerPanic(i) ==
    /\ w_pc[i] = "reading"
    /\ w_pc' = [w_pc EXCEPT ![i] = "panicked"]
    /\ UNCHANGED <<inputVars, dispVars, w_res, chan, sent, consVars,
                   lcVars, wkVars, auxVars>>

\* a variant in which the caller reads the channel while spawn_readers is
\* still admitting entries
ConsumerRecvBeforeReturn ==
    /\ cons_pc = "waiting"
    /\ chan # <<>>
    /\ received' = Append(received, Head(chan))
    /\ results' = Append(results, Head(chan).fse)
    /\ errors' = errors \o Head(chan).errors
    /\ stats' = ApplyEntry(stats, Head(chan).fse)
    /\ chan' = Tail(chan)
    /\ UNCHANGED <<cons_pc, sent, inputVars, dispVars, w_pc, w_res, lcVars,
                   wkVars, auxVars>>

\* main.rs:281-302: one iteration of the loop over rx: the aggregate is
\* updated (ScanStats::apply_entry, stats.rs:16-45), the entry and its
\* errors are kept
ConsumerRecv ==
    /\ disp_pc = "returned"
    /\ cons_pc = "waiting"
    /\ chan # <<>>
    /\ received' = Append(received, Head(chan))
    /\ results' = Append(results, Head(chan).fse)
    /\ errors' = errors \o Head(chan).errors
    /\ stats' = ApplyEntry(stats, Head(chan).fse)
    /\ chan' = Tail(chan)
    /\ UNCHANGED <<cons_pc, sent, inputVars, dispVars, w_pc, w_res, lcVars,
                   wkVars, auxVars>>

\* main.rs:281: the loop over rx ends when the channel is empty and closed
ConsumerClosed ==
    /\ cons_pc = "waiting"
    /\ chan = <<>>
    /\ ChannelClosed
    /\ cons_pc' = "joining"
    /\ UNCHANGED <<received, results, errors, stats, inputVars, dispVars,
                   w_pc, w_res, chan, sent, lcVars, wkVars, auxVars>>

\* main.rs:304-306: every handle is joined and the outcome ignored
ConsumerJoin ==
    /\ cons_pc = "joining"
    /\ \A i \in DOMAIN w_pc : w_pc[i] \in {"done", "panicked"}
    /\ cons_pc' = "finished"
    /\ UNCHANGED <<received, results, errors, stats, inputVars, dispVars,
                   w_pc, w_res, chan, sent, lcVars, wkVars, auxVars>>

Next ==
    \/ DispatcherLock
    \/ DispatcherSpawn
    \/ DispatcherReturn
    \/ \E i \in DOMAIN w_pc : WorkerRead(i)
    \/ \E i \in DOMAIN w_pc : WorkerSend(i)
    \/ \E i \in DOMAIN w_pc : WorkerUnlock(i)
    \/ \E i \in DOMAIN w_pc : WorkerExit(i)
    \/ ConsumerRecv
    \/ ConsumerClosed
    \/ ConsumerJoin

Spec == Init /\ [][Next]_vars

\* the steps of the three kinds of thread
Dispatcher == DispatcherLock \/ DispatcherSpawn \/ DispatcherReturn
Worker(i) ==
    /\ i \in DOMAIN w_pc
    /\ WorkerRead(i) \/ WorkerSend(i) \/ WorkerUnlock(i) \/ WorkerExit(i)
Consumer == ConsumerRecv \/ ConsumerClosed \/ ConsumerJoin

\* the scan under a scheduler that lets every thread that can take a step
\* (one not blocked in Condvar::wait, in recv or in join) take it
\* eventually: the threads are OS threads (thread::spawn, read.rs:40) and
\* the walk of a finite tree returns
Fairness ==
    /\ WF_vars(Dispatcher)
    /\ \A i \in 1..MaxEntries : WF_vars(Worker(i))
    /\ WF_vars(Consumer)
SpecFair == Spec /\ Fairness

(***************************************************************************)
(* The run from the start of main: the check of the target path and the    *)
(* listing come before the scan.                                           *)
(***************************************************************************)
InitMain ==
    /\ main_pc = "check"
    /\ root \in RootKinds
    /\ listing \in PoolListings
    /\ entries = <<>>
    /\ max_threads \in {None} \cup {Some(n) : n \in 0..MaxThreads}
    /\ count_lines \in BOOLEAN
    /\ sem_count = 0
    /\ disp_pc = "unborn"
    /\ disp_i = 1
    /\ w_pc = <<>>
    /\ w_res = <<>>
    /\ chan = <<>>
    /\ sent = <<>>
    /\ cons_pc = "unborn"
    /\ received = <<>>
    /\ results = <<>>
    /\ errors = <<>>
    /\ stats = DefaultStats
    /\ LcIdle /\ WkIdle /\ StIdle /\ SoIdle /\ ChIdle
    /\ GsIdle

\* a variant that only asks whether the target path exists
RootIsInvalidExistsOnly(kind) == kind = "missing"

\* main.rs:178: !target_path.exists() || !target_path.is_dir()
RootIsInvalid(kind) == kind = "missing" \/ kind \notin {"dir", "unlistable"}

\* main.rs:178-180: an invalid target path ends the run with an error
CheckRoot ==
    /\ main_pc = "check"
    /\ main_pc' = IF RootIsInvalid(root) THEN "aborted" ELSE "list"
    /\ UNCHANGED <<root, listing, entries, max_threads, count_lines, dispVars,
                   w_pc, w_res, chan, sent, consVars, lcVars, wkVars, auxVars>>

\* main.rs:192-223: the target directory is listed; an Err of fs::read_dir
\* ends the run (the ? of main.rs:194).  main.rs:242-243 and
\* read.rs:21-27: the channel and the semaphore are created, the consumer
\* is about to iterate over rx
ListRoot ==
    /\ main_pc = "list"
    /\ IF root # "dir"
       THEN /\ main_pc' = "aborted"
            /\ UNCHANGED <<entries, dispVars, w_pc, w_res, consVars>>
       ELSE /\ main_pc' = "scan"
            /\ entries' = Listed(listing).entries
            /\ errors' = Listed(listing).errors
            /\ w_pc' = [i \in DOMAIN entries' |-> "idle"]
            /\ w_res' = [i \in DOMAIN entries' |-> NoResult]
            /\ disp_pc' = "lock"
            /\ cons_pc' = "waiting"
            /\ UNCHANGED <<sem_count, disp_i, received, results, stats>>
    /\ UNCHANGED <<root, listing, max_threads, count_lines, chan, sent,
                   lcVars, wkVars, auxVars>>

NextMain ==
    \/ CheckRoot
    \/ ListRoot
    \/ Next

SpecMain == InitMain /\ [][NextMain]_vars

\* the scan in which a worker thread may terminate abnormally
NextCrash ==
    \/ Next
    \/ \E i \in DOMAIN w_pc : WorkerPanic(i)

SpecCrash == Init /\ [][NextCrash]_vars

(***************************************************************************)
(* Properties of the scan (checked under Spec and SpecCrash).              *)
(***************************************************************************)
\* the worker threads that were admitted and have not released their slot
Running == {i \in DOMAIN w_pc : w_pc[i] \in {"reading", "send", "unlock"}}
Drained == cons_pc \in {"joining", "finished"}

\* C1: with a ceiling Some(N), N >= 1, at most N worker threads are running
\* (admitted, slot not yet released) in every reachable state.
C1_AtMostNRunning ==
    (IsSome(max_threads) /\ Unwrap(max_threads) >= 1)
        => Cardinality(Running) <= Unwrap(max_threads)

\* C1 witness: the ceiling is reached and holds the dispatcher back
C1_Witness ==
    /\ IsSome(max_threads) /\ Unwrap(max_threads) >= 1
    /\ Cardinality(Running) = Unwrap(max_threads)
    /\ disp_pc = "wait"

\* C2: when the consumer has seen the channel closed it has received
\* exactly one pair for each top-level entry, the pair its worker built,
\* errors included.
C2_ExactlyOnePairPerEntry ==
    Drained =>
        /\ Len(received) = Len(entries)
        /\ \A i \in DOMAIN entries :
             /\ Cardinality({k \in DOMAIN received :
                               received[k].fse.name = <<i>>}) = 1
             /\ \E k \in DOMAIN received : received[k] = w_res[i]

\* C2 witness: a drained scan of several entries in which a received pair
\* carries errors
C2_Witness ==
    /\ cons_pc = "finished"
    /\ Len(entries) >= 2
    /\ \E k \in DOMAIN received : received[k].errors # <<>>
    /\ \E k \in DOMAIN received : received[k].errors = <<>>

\* C3: a slot acquired for a worker is released whatever way the worker
\* ends: once every spawned thread has terminated (normally or by a
\* panic) no slot is held any more.
C3_SlotsReleased ==
    (disp_pc # "spawn" /\ Running = {}) => sem_count = 0

\* C4: when the consumer has seen the channel closed, it holds for every
\* worker that panicked an Unknown placeholder for its entry, paired with
\* a synthetic error.
C4_PanicYieldsUnknown ==
    Drained =>
        \A i \in DOMAIN w_pc :
            w_pc[i] = "panicked" =>
                \E k \in DOMAIN received :
                    /\ received[k].fse = UnknownEntry(<<i>>)
                    /\ received[k].errors # <<>>

(***************************************************************************)
(* Properties of read_and_count_lines (checked under SpecLines).           *)
(***************************************************************************)
LcDone == lc_pc = "done" /\ lc_file.open_ok
\* every read filled the buffer and none failed
FullReads == lc_file.sched = <<>>
NoReadError == \A k \in DOMAIN lc_file.sched : lc_file.sched[k] # -1

\* C5: for valid UTF-8 text (no NUL) read in full chunks, the result is the line
\* count of the whole text (LF count, plus one for an unterminated last
\* line), wherever the chunk boundaries fall.
C5_ValidTextWholeCount ==
    (LcDone /\ FullReads /\ IsUtf8(lc_file.content)
       /\ \A i \in DOMAIN lc_file.content : lc_file.content[i] # 0)
        => lc_res = Ok(LinesCount(lc_file.content))

\* C6: a file with a NUL byte anywhere in its content is counted as 0
\* lines.
C6_NulMeansZero ==
    (LcDone /\ NoReadError /\ \E i \in DOMAIN lc_file.content : lc_file.content[i] = 0)
        => lc_res = Ok(0)

\* C7: a file whose content is not valid UTF-8 (ill-formed bytes in any
\* chunk, or a code point cut short by the end of the stream) is counted
\* as 0 lines, whatever was counted before; only a failing read makes the
\* result an error instead.
C7_InvalidUtf8MeansZero ==
    (LcDone /\ ~IsUtf8(lc_file.content))
        => /\ lc_res \in {Ok(0), Err}
           /\ NoReadError => lc_res = Ok(0)

\* C7 witness: the first full chunk is valid text with a line in it, the
\* ill-formed byte comes in a later chunk, and the result is 0
C7_Witness ==
    /\ LcDone /\ FullReads
    /\ Len(lc_file.content) > CHUNK_SIZE
    /\ IsUtf8(SubSeq(lc_file.content, 1, CHUNK_SIZE))
    /\ LinesCount(SubSeq(lc_file.content, 1, CHUNK_SIZE)) > 0
    /\ ~IsUtf8(lc_file.content)
    /\ lc_res = Ok(0)

(***************************************************************************)
(* Properties of read_entry_recursive (checked under SpecWalk).            *)
(***************************************************************************)
RECURSIVE SumSizes(_)
\* sum of the sizes of the entries of a list that have one
SumSizes(fses) ==
    IF fses = <<>> THEN 0
    ELSE (IF IsSome(Head(fses).size) THEN Unwrap(Head(fses).size) ELSE 0)
           + SumSizes(Tail(fses))

RECURSIVE DirSizesAreChildSums(_)
DirSizesAreChildSums(fse) ==
    (fse.type = "Dir" /\ IsSome(fse.children)) =>
        /\ fse.size = Some(SumSizes(Unwrap(fse.children)))
        /\ \A k \in DOMAIN Unwrap(fse.children) :
              DirSizesAreChildSums(Unwrap(fse.children)[k])

\* C8: every Directory entry of the result whose listing succeeded has a
\* size equal to the sum of the sizes of its immediate children that have
\* one, and nothing else.
C8_DirSizeIsChildSum ==
    wk_pc = "done" => DirSizesAreChildSums(wk_res.fse)

\* number of occurrences of e in the list errs
Count(errs, e) == Cardinality({k \in DOMAIN errs : errs[k] = e})

WalkedDir ==
    /\ wk_pc = "done"
    /\ wk_entry.node.meta_ok /\ wk_entry.node.kind = "dir"
    /\ wk_entry.node.list_ok

\* an error is recorded for the child itself while it is scanned
ChildErrored(node) ==
    \/ ~node.meta_ok
    \/ /\ node.kind = "file" /\ wk_count_lines
       /\ ~ReadAndCountLines(node.file).ok

\* the listing positions of the walked directory that yield a DirEntry
OkItems == {i \in DOMAIN wk_entry.node.items : wk_entry.node.items[i] # ItemErr}
ChildPath(i) == Append(wk_entry.path, i)
\* the entries of the result built for listing position i
ChildrenAt(i) ==
    LET cs == Unwrap(wk_res.fse.children)
    IN {k \in DOMAIN cs : cs[k].name = ChildPath(i)}

RECURSIVE SumOver(_, _)
SumOver(S, f) ==
    IF S = {} THEN 0
    ELSE LET x == CHOOSE y \in S : TRUE IN f[x] + SumOver(S \ {x}, f)

\* C9: in a walked directory (taken here with a metadata size of 0, so that
\* only child sizes can enter the sum) a child for which an error was
\* recorded is left out of the size sum, and every such error is in the
\* error list exactly once.
C9_ErroredChildExcluded ==
    (WalkedDir /\ wk_entry.node.msize = 0) =>
        LET cs == Unwrap(wk_res.fse.children)
            items == wk_entry.node.items
            sound == {i \in OkItems : ~ChildErrored(items[i][1])}
            sizeAt == [i \in sound |->
                         SumSizes([k \in 1..1 |->
                                     cs[CHOOSE j \in ChildrenAt(i) : TRUE]])]
        IN /\ \A i \in sound : ChildrenAt(i) # {}
           /\ wk_res.fse.size = Some(SumOver(sound, sizeAt))
           /\ Count(wk_res.errors, DirEntryError(wk_entry.path))
                = Cardinality(DOMAIN items \ OkItems)
           /\ \A i \in OkItems :
                /\ Count(wk_res.errors, MetadataError(ChildPath(i)))
                     = (IF ~items[i][1].meta_ok THEN 1 ELSE 0)
                /\ Count(wk_res.errors, LinesError(ChildPath(i)))
                     = (IF items[i][1].meta_ok /\ ChildErrored(items[i][1])
                        THEN 1 ELSE 0)

\* the entry type the walk gives a node
TypeOf(node) ==
    IF ~node.meta_ok THEN "Unknown"
    ELSE IF node.kind = "file" THEN "File"
    ELSE IF node.kind = "dir" THEN "Dir"
    ELSE "Unknown"

\* the error the walk records for the node itself, if it fails
OwnErrors(node, path) ==
    IF ~node.meta_ok THEN {MetadataError(path)}
    ELSE IF node.kind = "file" /\ wk_count_lines
            /\ ~ReadAndCountLines(node.file).ok
    THEN {LinesError(path)}
    ELSE IF node.kind = "dir" /\ ~node.list_ok THEN {ReadDirError(path)}
    ELSE {}

\* C10: while a directory is enumerated, a failing child (an Err item of
\* the listing, a metadata failure, a line-count failure, a nested directory
\* whose listing fails) does not stop the enumeration: every item of the
\* listing that is a DirEntry has its entry among the children, in listing
\* order and with the node's type, and the error of every failing child is
\* in the error list.
C10_SiblingsStillVisited ==
    WalkedDir =>
        LET cs == Unwrap(wk_res.fse.children)
            items == wk_entry.node.items
        IN /\ Len(cs) = Cardinality(OkItems)
           /\ \A i \in OkItems :
                /\ Cardinality(ChildrenAt(i)) = 1
                /\ \A k \in ChildrenAt(i) :
                     /\ cs[k].type = TypeOf(items[i][1])
                     /\ k = Cardinality({j \in OkItems : j <= i})
                /\ \A e \in OwnErrors(items[i][1], ChildPath(i)) :
                     Count(wk_res.errors, e) >= 1
           /\ OkItems # DOMAIN items
                => Count(wk_res.errors, DirEntryError(wk_entry.path)) >= 1

\* C10 witness: the first item of the listing is an Err and the item after
\* it is still processed
C10_Witness ==
    /\ WalkedDir
    /\ Len(wk_entry.node.items) >= 2
    /\ wk_entry.node.items[1] = ItemErr
    /\ wk_entry.node.items[2] # ItemErr
    /\ Len(Unwrap(wk_res.fse.children)) = Len(wk_entry.node.items) - 1
    /\ Count(wk_res.errors, DirEntryError(wk_entry.path)) = 1

(***************************************************************************)
(* Properties of the files of a walked tree (checked under SpecWalk).      *)
(***************************************************************************)
RECURSIVE NodesOf(_)
\* the DirEntry values the walk of en comes to: en and, below a directory
\* that can be listed, what its Ok items lead to
NodesOf(en) ==
    {en} \cup
      (IF en.node.meta_ok /\ en.node.kind = "dir" /\ en.node.list_ok
       THEN UNION {NodesOf([path |-> Append(en.path, i),
                            node |-> en.node.items[i][1]]) :
                     i \in {j \in DOMAIN en.node.items :
                              en.node.items[j] # ItemErr}}
       ELSE {})

RECURSIVE EntriesOf(_)
\* the entries of a result tree
EntriesOf(fse) ==
    {fse} \cup
      (IF IsSome(fse.children)
       THEN UNION {EntriesOf(Unwrap(fse.children)[k]) :
                     k \in DOMAIN Unwrap(fse.children)}
       ELSE {})

\* the regular files the walk has come to, and the entries built for a path
WalkedFiles ==
    {en \in NodesOf(wk_entry) : en.node.meta_ok /\ en.node.kind = "file"}
EntriesAt(path) == {e \in EntriesOf(wk_res.fse) : e.name = path}
ErrorsAt(path) == {k \in DOMAIN wk_res.errors : wk_res.errors[k].at = path}

\* C18: with line counting on, a file that cannot be opened or whose read
\* fails gets exactly one error and a File entry with its metadata size and
\* lines = None, never Some(0), wherever in the tree it is; the walk goes on
C18_CountFailureGivesNone ==
    (wk_pc = "done" /\ wk_count_lines) =>
        \A en \in WalkedFiles :
            ~ReadAndCountLines(en.node.file).ok =>
                /\ EntriesAt(en.path)
                     = {FileEntry(en.path, en.node.msize, None)}
                /\ Cardinality(ErrorsAt(en.path)) = 1
                /\ Count(wk_res.errors, LinesError(en.path)) = 1

\* a file whose read fails after a line was counted is listed before a
\* sibling; both are among the children and the file has no line count
C18_Witness ==
    /\ WalkedDir /\ wk_count_lines
    /\ Len(wk_entry.node.items) >= 2
    /\ wk_entry.node.items[1] = ItemOk(FileNode(ReadFails))
    /\ wk_entry.node.items[2] = ItemOk(FileNode(TextFile))
    /\ Unwrap(wk_res.fse.children)[1] = FileEntry(ChildPath(1), 2, None)
    /\ Unwrap(wk_res.fse.children)[2] = FileEntry(ChildPath(2), 2, Some(1))
    /\ Count(wk_res.errors, LinesError(ChildPath(1))) = 1

\* C20 as stated: a File entry has lines = Some only when line counting is
\* on and the content of the file is valid UTF-8
C20_LinesOnlyForText ==
    wk_pc = "done" =>
        \A en \in WalkedFiles : \A e \in EntriesAt(en.path) :
            IsSome(e.lines) =>
                (wk_count_lines /\ IsUtf8(en.node.file.content))

\* C20, amended: a File entry has lines = Some exactly when line counting
\* is on and the file was opened and read without error; a file judged
\* binary then has lines = Some(0)
C20_LinesWhenCountedAndRead ==
    wk_pc = "done" =>
        \A en \in WalkedFiles : \A e \in EntriesAt(en.path) :
            /\ IsSome(e.lines)
                 <=> (wk_count_lines /\ ReadAndCountLines(en.node.file).ok)
            /\ (IsSome(e.lines) /\ ~IsUtf8(en.node.file.content))
                 => e.lines = Some(0)

\* a binary file below the walked directory has been counted
C20_Witness ==
    /\ WalkedDir /\ wk_count_lines
    /\ \E en \in WalkedFiles :
          /\ Len(en.path) >= 2
          /\ en.node.file = BinaryFile
          /\ EntriesAt(en.path) = {FileEntry(en.path, 1, Some(0))}

(***************************************************************************)
(* Properties of the aggregate after a scan (checked under Spec).          *)
(***************************************************************************)
RECURSIVE TreeLines(_)
RECURSIVE ItemsLines(_)
\* the lines of the text files of a subtree: a file that can be counted
\* contributes its count, a directory that can be listed the lines of the
\* items it lists
TreeLines(node) ==
    IF ~node.meta_ok THEN 0
    ELSE IF node.kind = "file"
    THEN LET counted == ReadAndCountLines(node.file)
         IN IF counted.ok THEN counted.lines ELSE 0
    ELSE IF node.kind = "dir" /\ node.list_ok THEN ItemsLines(node.items)
    ELSE 0
ItemsLines(items) ==
    IF items = <<>> THEN 0
    ELSE (IF Head(items) = ItemErr THEN 0 ELSE TreeLines(Head(items)[1]))
           + ItemsLines(Tail(items))

\* C11: with line counting on, once the result stream is drained, total_lines
\* is the sum of the line counts of the text files of all top-level subtrees,
\* the files nested in directories included
C11_TotalLinesCountsNested ==
    (Drained /\ count_lines) =>
        stats.total_lines = ItemsLines([i \in DOMAIN entries |-> ItemOk(entries[i])])

(***************************************************************************)
(* Properties of apply_entry (checked under SpecStats).                    *)
(***************************************************************************)
RECURSIVE Applied(_, _)
\* the entries of st_todo at the positions of done, from position k on, in
\* the order of the sequence
Applied(k, done) ==
    IF k > Len(st_todo) THEN <<>>
    ELSE (IF k \in done THEN <<st_todo[k]>> ELSE <<>>) \o Applied(k + 1, done)

\* C12: apply_entry is order-independent: in whatever order the entries of a
\* collection have arrived, every field of the ScanStats is what folding the
\* same entries in the order of the collection gives
C12_OrderIndependent ==
    st_pc = "folding" => st_stats = FoldEntries(DefaultStats, Applied(1, st_done))

\* a collection of at least two entries of different sizes has been folded
\* completely
C12_Witness ==
    /\ st_pc = "folding"
    /\ Len(st_todo) >= 2
    /\ st_done = DOMAIN st_todo
    /\ \E j, k \in DOMAIN st_todo :
          /\ j < k
          /\ IsSome(st_todo[j].size) /\ IsSome(st_todo[k].size)
          /\ Unwrap(st_todo[j].size) > Unwrap(st_todo[k].size)
    /\ st_stats.total_lines > 0

\* C19: applying an Unknown entry that has no size leaves total_size,
\* max_size and max_size_digits as they were and adds one to unknown_count
C19_UnknownWithoutSizeFrame ==
    [][\A k \in DOMAIN st_todo :
         (/\ k \notin st_done /\ k \in st_done'
          /\ st_todo[k].type = "Unknown" /\ st_todo[k].size = None)
         => /\ st_stats'.total_size = st_stats.total_size
            /\ st_stats'.max_size = st_stats.max_size
            /\ st_stats'.max_size_digits = st_stats.max_size_digits
            /\ st_stats'.unknown_count = st_stats.unknown_count + 1]_vars

\* an Unknown entry without a size was the first of several to be applied:
\* no size has been seen
C19_Witness ==
    /\ st_pc = "folding"
    /\ Len(st_todo) >= 2
    /\ \E k \in DOMAIN st_todo :
          /\ st_done = {k}
          /\ st_todo[k].type = "Unknown" /\ st_todo[k].size = None
    /\ st_stats.unknown_count = 1
    /\ st_stats.max_size_digits = 0

(***************************************************************************)
(* Properties of the scan as a whole (checked under Spec and SpecFair).    *)
(***************************************************************************)
\* what the walk of top-level entry i returns
WalkOf(i) ==
    ReadEntryRecursive([path |-> <<i>>, node |-> entries[i]], count_lines, <<>>)

\* C13: the outcome of a scan is determined by the tree and the flag: for
\* every ceiling and every interleaving of the threads, the set of pairs
\* received and the final ScanStats are the same; only the order of arrival
\* differs
C13_OutcomeDetermined ==
    Drained =>
        /\ {received[k] : k \in DOMAIN received}
             = {WalkOf(i) : i \in DOMAIN entries}
        /\ stats = FoldEntries(DefaultStats,
                               [i \in DOMAIN entries |-> WalkOf(i).fse])

\* a scan under a ceiling is over and its results did not arrive in the
\* order of the listing
C13_Witness ==
    /\ cons_pc = "finished"
    /\ IsSome(max_threads)
    /\ Len(entries) >= 3
    /\ received[1].fse.name = <<2>>
    /\ received[3].fse.name = <<1>>

\* C14: the error list of a delivered pair holds exactly the errors of the
\* walk of the pair's own entry: every error in it lies in that entry's
\* subtree, and no error of that walk is missing
C14_ErrorsOfOwnEntry ==
    \A k \in DOMAIN received :
        LET i == received[k].fse.name[1]
            errs == received[k].errors
        IN /\ \A j \in DOMAIN errs : errs[j].at[1] = i
           /\ errs = WalkOf(i).errors

\* two pairs with errors have been delivered, the later entry's first
C14_Witness ==
    \E k, l \in DOMAIN received :
        /\ k < l
        /\ received[k].errors # <<>> /\ received[l].errors # <<>>
        /\ received[k].fse.name[1] > received[l].fse.name[1]

\* C16: spawn_readers starts exactly one worker thread per top-level entry,
\* and the consumer receives the pairs in the order in which the workers
\* sent them, whatever the order of the listing
C16_OneWorkerEachInSendOrder ==
    /\ DOMAIN w_pc = DOMAIN entries
    /\ {i \in DOMAIN w_pc : w_pc[i] # "idle"} = 1..(disp_i - 1)
    /\ disp_pc = "returned" => disp_i = Len(entries) + 1
    /\ received \o chan = sent

\* the second entry of the listing completed first and was received first,
\* while a later pair is still in the channel
C16_Witness ==
    /\ Len(received) >= 2
    /\ received[1].fse.name = <<2>>
    /\ received[2].fse.name = <<1>>
    /\ chan # <<>>

\* C17: without a ceiling the dispatcher never blocks and no slot is
\* counted; every worker is spawned without waiting for another to finish
C17_NoCeilingNeverBlocks ==
    max_threads = None => (disp_pc # "wait" /\ sem_count = 0)

\* without a ceiling, the workers of all entries are running at once
C17_Witness ==
    /\ max_threads = None
    /\ Len(entries) = MaxEntries
    /\ Running = DOMAIN entries

\* C15: with a ceiling N >= 1, finitely many entries and no crash, the scan
\* terminates: a dispatcher that waits is admitted, spawn_readers returns
\* after spawning a worker for every entry, and the consumer sees the
\* channel closed
C15_ScanTerminates ==
    (IsSome(max_threads) /\ Unwrap(max_threads) >= 1) =>
        /\ (disp_pc = "wait") ~> (disp_pc = "spawn")
        /\ <>(disp_pc = "returned" /\ \A i \in DOMAIN w_pc : w_pc[i] # "idle")
        /\ <>(cons_pc = "finished")

\* a scan of more entries than the ceiling admits at once has come to its
\* end
C15_Witness ==
    /\ IsSome(max_threads) /\ Unwrap(max_threads) >= 1
    /\ Len(entries) > Unwrap(max_threads)
    /\ disp_pc = "returned"
    /\ cons_pc = "finished"
    /\ Len(received) = Len(entries)

(***************************************************************************)
(* Properties of the error lists and of the aggregate during a scan        *)
(* (checked under Spec).                                                   *)
(***************************************************************************)
\* the error the walk records for a node itself, under the given flag
OwnErrorsWith(node, path, flag) ==
    IF ~node.meta_ok THEN {MetadataError(path)}
    ELSE IF node.kind = "file" /\ flag /\ ~ReadAndCountLines(node.file).ok
    THEN {LinesError(path)}
    ELSE IF node.kind = "dir" /\ ~node.list_ok THEN {ReadDirError(path)}
    ELSE {}

\* the Err items of the listing of a node
ErrItems(node) == {j \in DOMAIN node.items : node.items[j] = ItemErr}

RECURSIVE FlatErrors(_)
\* the error lists of a sequence of pairs, one after the other
FlatErrors(pairs) ==
    IF pairs = <<>> THEN <<>>
    ELSE Head(pairs).errors \o FlatErrors(Tail(pairs))

\* the items of the listing of the target directory that push an error
PreScanErrorItems ==
    {j \in DOMAIN listing :
        listing[j].res = "err" \/ listing[j].filter = "error"}

\* C21: no error is lost: the list delivered with a top-level entry holds
\* the error of every failing node of its subtree, at any depth, and one
\* error per Err item of every listing in it; the global list is the errors
\* of the listing of the target directory followed by the lists of the
\* received pairs, so that after the drain its length is the number of
\* pre-scan errors plus the sum of the lengths of the per-entry lists
C21_NoErrorLost ==
    /\ \A k \in DOMAIN received :
         LET i == received[k].fse.name[1]
             errs == received[k].errors
         IN \A en \in NodesOf([path |-> <<i>>, node |-> entries[i]]) :
              /\ \A e \in OwnErrorsWith(en.node, en.path, count_lines) :
                   Count(errs, e) = 1
              /\ (en.node.meta_ok /\ en.node.kind = "dir")
                   => Count(errs, DirEntryError(en.path))
                        = Cardinality(ErrItems(en.node))
    /\ Len(errors) = Cardinality(PreScanErrorItems) + Len(FlatErrors(received))
    /\ \A j \in DOMAIN errors :
         j > Cardinality(PreScanErrorItems)
           => errors[j] = FlatErrors(received)[j - Cardinality(PreScanErrorItems)]
    /\ Drained => Len(received) = Len(entries)

\* a drained scan whose listing pushed errors and whose global list holds an
\* error recorded one level below a top-level entry
C21_Witness ==
    /\ Drained
    /\ Cardinality(PreScanErrorItems) >= 2
    /\ \E j \in DOMAIN errors :
         errors[j].kind = "lines" /\ Len(errors[j].at) = 2
    /\ \E j \in DOMAIN errors : errors[j].kind = "metadata"

\* C22: the ScanStats changes only when a result is received, once per
\* result; no field ever decreases, and the three counts always add up to
\* the number of results applied so far
C22_MonotonicOncePerResult ==
    /\ [](stats.dir_count + stats.file_count + stats.unknown_count
            = Len(received))
    /\ [][/\ stats' # stats => Len(received') = Len(received) + 1
          /\ Len(received') # Len(received) =>
                stats'.dir_count + stats'.file_count + stats'.unknown_count
                  = stats.dir_count + stats.file_count
                      + stats.unknown_count + 1
          /\ stats'.total_size >= stats.total_size
          /\ stats'.total_lines >= stats.total_lines
          /\ stats'.max_size >= stats.max_size
          /\ stats'.max_size_digits >= stats.max_size_digits
          /\ stats'.max_name_len >= stats.max_name_len
          /\ stats'.dir_count >= stats.dir_count
          /\ stats'.file_count >= stats.file_count
          /\ stats'.unknown_count >= stats.unknown_count]_vars

\* a result of each type has been applied, the largest size not last
C22_Witness ==
    /\ Len(received) = 3
    /\ stats.dir_count = 1 /\ stats.file_count = 1 /\ stats.unknown_count = 1
    /\ received[1].fse.type = "Dir"
    /\ stats.total_lines > 0

(***************************************************************************)
(* Properties of the start of a run (checked under SpecMain).              *)
(***************************************************************************)
\* C23: when the target path does not exist or is not a directory, the run
\* aborts at the check: the listing is never attempted, no entry is listed,
\* no channel is created and no worker thread is spawned
C23_InvalidRootAborts ==
    root \in {"missing", "file"} =>
        /\ main_pc \in {"check", "aborted"}
        /\ entries = <<>> /\ errors = <<>>
        /\ disp_pc = "unborn" /\ cons_pc = "unborn"
        /\ w_pc = <<>> /\ chan = <<>> /\ sent = <<>>

\* the run was given a regular file as its target and has aborted
C23_Witness ==
    /\ root = "file"
    /\ main_pc = "aborted"
    /\ disp_pc = "unborn"

(***************************************************************************)
(* Properties of sort_entries (checked under SpecSort).                    *)
(***************************************************************************)
\* a is at most b in the order of strings: a is a prefix of b, or the two
\* differ first at a position where a has the smaller byte
StrLeq(a, b) ==
    \E p \in 0..Len(a) :
        /\ p <= Len(b)
        /\ \A k \in 1..p : a[k] = b[k]
        /\ p = Len(a) \/ (p < Len(b) /\ a[p + 1] < b[p + 1])

\* the name compared without regard to case, the size with an absent size
\* below every size, the rank of the type
NameKey(fse) == ToLowercase(NameStr(fse))
SizeKey(fse) == IF IsSome(fse.size) THEN Unwrap(fse.size) + 1 ELSE 0
TypeKey(fse) ==
    IF fse.type = "Dir" THEN 1 ELSE IF fse.type = "File" THEN 2 ELSE 3

\* a may stand before b under the selected key
KeyLeq(a, b) ==
    IF so_by = "Name" THEN StrLeq(NameKey(a), NameKey(b))
    ELSE IF so_by = "Size" THEN SizeKey(a) >= SizeKey(b)
    ELSE TypeKey(a) <= TypeKey(b)
InOrder(a, b) == IF so_rev THEN KeyLeq(b, a) ELSE KeyLeq(a, b)

\* C24: sort_entries yields a permutation of its input, ordered by the
\* selected key (Name: names without regard to case; Size: larger first;
\* Type: directories, files, unknown), the order inverted by reverse, and
\* entries that compare equal stay in their input order
C24_StableSortByKey ==
    so_pc = "done" =>
        \E pi \in Permutations(DOMAIN so_in) :
            /\ so_out = [k \in DOMAIN so_in |-> so_in[pi[k]]]
            /\ \A i, j \in DOMAIN so_out :
                 i < j =>
                    /\ InOrder(so_out[i], so_out[j])
                    /\ InOrder(so_out[j], so_out[i]) => pi[i] < pi[j]

\* sorted by name: "b" came before "B" in the input and still does, after
\* "a" which came last
C24_Witness ==
    /\ so_pc = "done" /\ so_by = "Name" /\ ~so_rev
    /\ so_in = <<FileEntry(<<98>>, 2, None), FileEntry(<<66>>, 2, Some(1)),
                 DirEntry(<<97>>, 5, None)>>
    /\ so_out = <<DirEntry(<<97>>, 5, None), FileEntry(<<98>>, 2, None),
                  FileEntry(<<66>>, 2, Some(1))>>

(***************************************************************************)
(* Properties of the chunk loop (checked under SpecChunks).                *)
(***************************************************************************)
\* the bytes are the first bytes of one well-formed code point that needs
\* more bytes than these
ProperPrefixOfCodePoint(bs) ==
    /\ bs # <<>>
    /\ Len(bs) < Utf8CharWidth(bs[1])
    /\ Len(bs) >= 2 => SecondOk(bs[1], bs[2])
    /\ \A k \in 3..Len(bs) : IsCont(bs[k])

\* the number of bytes of the content read so far
ChunkPos == Len(ch_file.content) - Len(ch_rest)

\* C25: for content that is valid UTF-8 and read in full chunks, leftover is
\* empty or the bytes read so far of one code point cut by the chunk
\* boundary (at most 3 bytes), all bytes before them have been decoded, and
\* the counter never returns through a binary short-circuit
C25_LeftoverIsSplitCodePoint ==
    (ch_file.open_ok /\ IsUtf8(ch_file.content) /\ ch_file.sched = <<>>) =>
        /\ ch_pc \notin {"binary", "failed"}
        /\ Len(ch_leftover) <= 3
        /\ ch_leftover # <<>> => ProperPrefixOfCodePoint(ch_leftover)
        /\ ch_leftover = SubSeq(ch_file.content,
                                ChunkPos - Len(ch_leftover) + 1, ChunkPos)
        /\ IsUtf8(SubSeq(ch_file.content, 1, ChunkPos - Len(ch_leftover)))
        /\ ch_pc \in {"finish", "done"} => ch_leftover = <<>>

\* a code point of four bytes is cut after its third byte: three bytes are
\* carried over to the next chunk
C25_Witness ==
    /\ ch_pc = "loop"
    /\ IsUtf8(ch_file.content) /\ ch_file.sched = <<>>
    /\ Len(ch_leftover) = 3
    /\ ch_rest # <<>>

(***************************************************************************)
(* Properties of the failures of a walk (checked under SpecWalk).          *)
(***************************************************************************)
\* path is a proper prefix of name
Below(name, path) ==
    Len(name) > Len(path) /\ SubSeq(name, 1, Len(path)) = path

\* nothing in the result or in the error list lies below path
NothingBelow(path) ==
    /\ \A e \in EntriesOf(wk_res.fse) : ~Below(e.name, path)
    /\ \A k \in DOMAIN wk_res.errors : ~Below(wk_res.errors[k].at, path)

\* C26: a node whose metadata cannot be read gets exactly one error and an
\* Unknown entry without size; nothing more is done with it: its lines are
\* not counted, it is not listed, nothing below it is visited
C26_MetadataFailureGivesUnknown ==
    wk_pc = "done" =>
        \A en \in NodesOf(wk_entry) :
            ~en.node.meta_ok =>
                /\ EntriesAt(en.path) = {UnknownEntry(en.path)}
                /\ Cardinality(ErrorsAt(en.path)) = 1
                /\ Count(wk_res.errors, MetadataError(en.path)) = 1
                /\ NothingBelow(en.path)

\* with line counting on, the first child is a directory that lists a file
\* but whose metadata cannot be read; its sibling is still visited
C26_Witness ==
    /\ WalkedDir /\ wk_count_lines
    /\ Len(wk_entry.node.items) >= 2
    /\ wk_entry.node.items[1] = ItemOk(MetaFailDir)
    /\ wk_entry.node.items[2] = ItemOk(MetaFailNode)
    /\ Unwrap(wk_res.fse.children)
         = <<UnknownEntry(ChildPath(1)), UnknownEntry(ChildPath(2))>>
    /\ Len(wk_res.errors) = 2

\* C27: a directory that cannot be listed gets exactly one error and a Dir
\* entry without children whose size is the metadata size of the directory
C27_ListingFailureGivesBareDir ==
    wk_pc = "done" =>
        \A en \in NodesOf(wk_entry) :
            (en.node.meta_ok /\ en.node.kind = "dir" /\ ~en.node.list_ok) =>
                /\ EntriesAt(en.path)
                     = {DirEntry(en.path, en.node.msize, None)}
                /\ Cardinality(ErrorsAt(en.path)) = 1
                /\ Count(wk_res.errors, ReadDirError(en.path)) = 1
                /\ NothingBelow(en.path)

\* the second child is a directory with a metadata size of 1 that cannot be
\* listed
C27_Witness ==
    /\ WalkedDir
    /\ Len(wk_entry.node.items) >= 2
    /\ wk_entry.node.items[1] = ItemOk(FileNode(TextFile))
    /\ wk_entry.node.items[2] = ItemOk(DirNode(1, FALSE, <<>>))
    /\ Unwrap(wk_res.fse.children)[2] = DirEntry(ChildPath(2), 1, None)
    /\ Count(wk_res.errors, ReadDirError(ChildPath(2))) = 1

\* C28: for a node whose name is not valid Unicode the walk records an
\* error, the entry shows as "[Unknown Entry]", keeps the raw name, and the
\* node is processed like any other
C28_UndecodableNameRecorded ==
    wk_pc = "done" =>
        \A en \in NodesOf(wk_entry) :
            ~Decodable(en.path) =>
                /\ Count(wk_res.errors, NameError(en.path)) >= 1
                /\ EntriesAt(en.path) # {}
                /\ \A e \in EntriesAt(en.path) :
                     /\ NameStr(e) = UNKNOWN_ENTRY
                     /\ e.name = en.path
                     /\ e.type = TypeOf(en.node)

(***************************************************************************)
(* Properties of the Semaphore (checked under SpecCrash).                   *)
(***************************************************************************)
\* the workers admitted by lock that have not called unlock: those that
\* run, those whose thread died before unlock, and the one the dispatcher
\* was admitted for and is about to spawn
HoldingSlot ==
    Cardinality({i \in DOMAIN w_pc :
                    w_pc[i] \in {"reading", "send", "unlock", "panicked"}})
      + (IF disp_pc = "spawn" THEN 1 ELSE 0)

\* C29: with a ceiling, the count of the semaphore is between 0 and
\* max_threads and is the number of workers admitted by lock that have not
\* yet called unlock; it never goes below 0
C29_SemaphoreCount ==
    IsSome(max_threads) =>
        /\ sem_count >= 0
        /\ sem_count <= Unwrap(max_threads)
        /\ sem_count = HoldingSlot

\* every slot is taken, one of them by a worker that will never release it,
\* while another worker has released its slot already
C29_Witness ==
    /\ IsSome(max_threads)
    /\ Unwrap(max_threads) >= 2
    /\ sem_count = Unwrap(max_threads)
    /\ \E i \in DOMAIN w_pc : w_pc[i] = "panicked"
    /\ \E i \in DOMAIN w_pc : w_pc[i] \in {"exit", "done"}

\* C30: with a ceiling of 0 and at least one entry, lock never succeeds:
\* in every reachable state the dispatcher is still at the first entry,
\* about to call lock or waiting in it; no worker is spawned, nothing is
\* sent, spawn_readers has not returned and the consumer has received
\* nothing
C30_ZeroCeilingBlocksForever ==
    (max_threads = Some(0) /\ entries # <<>>) =>
        /\ disp_pc \in {"lock", "wait"} /\ disp_i = 1
        /\ \A i \in DOMAIN w_pc : w_pc[i] = "idle"
        /\ sem_count = 0
        /\ sent = <<>> /\ received = <<>>
        /\ cons_pc = "waiting"

\* the dispatcher waits for a slot that no worker can give back
C30_Witness ==
    /\ max_threads = Some(0)
    /\ Len(entries) >= 2
    /\ disp_pc = "wait"
    /\ sem_count = 0

(***************************************************************************)
(* The order of send, unlock and the hand-over of the receiver (checked    *)
(* under SpecCrash).                                                       *)
(***************************************************************************)
\* the workers that have called unlock
PastUnlock == {i \in DOMAIN w_pc : w_pc[i] \in {"exit", "done"}}

\* the workers that have sent their pair
PastSend == {i \in DOMAIN w_pc : w_pc[i] \in {"unlock", "exit", "done"}}

\* C31: a worker has sent its pair before it releases its slot, the
\* consumer holds the receiver only after the last entry has been admitted,
\* so with a ceiling N below the number of entries at least |entries| - N
\* pairs have been sent when the receiver is handed over and before
\* anything is received; a worker that is about to send can always send
C31_SendBeforeUnlock ==
    /\ Len(sent) = Cardinality(PastSend)
    /\ PastUnlock \subseteq PastSend
    /\ \A i \in PastSend : \E k \in DOMAIN sent : sent[k] = w_res[i]
    /\ (disp_pc = "returned" \/ received # <<>>) =>
           /\ disp_pc = "returned"
           /\ disp_i = Len(entries) + 1
           /\ \A i \in DOMAIN w_pc : w_pc[i] # "idle"
           /\ (IsSome(max_threads) /\ Unwrap(max_threads) < Len(entries)) =>
                  /\ Cardinality(PastUnlock)
                         >= Len(entries) - Unwrap(max_threads)
                  /\ Len(sent) >= Len(entries) - Unwrap(max_threads)
    /\ \A i \in DOMAIN w_pc : w_pc[i] = "send" => ENABLED WorkerSend(i)

\* three entries under a ceiling of one: the first result is received when
\* exactly two pairs have been sent, the second of them still buffered, and
\* the third worker has not sent yet
C31_Witness ==
    /\ max_threads = Some(1)
    /\ Len(entries) = 3
    /\ Len(received) = 1
    /\ Len(sent) = 2
    /\ Len(chan) = 1
    /\ w_pc[3] \in {"reading", "send"}

(***************************************************************************)
(* Properties of get_size and of the closure that calls it (checked under  *)
(* SpecSize).                                                              *)
(***************************************************************************)
RECURSIVE SubtreeFails(_)
\* a directory that get_size enters (its metadata is readable) cannot be
\* listed, or its listing yields an Err item, or the same holds in the
\* subtree of one of its items
SubtreeFails(node) ==
    /\ node.meta_ok
    /\ node.kind = "dir"
    /\ \/ ~node.list_ok
       \/ \E j \in DOMAIN node.items :
             \/ node.items[j] = ItemErr
             \/ node.items[j] # ItemErr /\ SubtreeFails(node.items[j][1])

RECURSIVE NodeAt(_, _)
\* the node at the end of a sequence of listing positions below node
NodeAt(node, rel) ==
    IF rel = <<>> THEN node
    ELSE NodeAt(node.items[Head(rel)][1], Tail(rel))

\* the node get_size was called on at position k of its trace
VisitedNode(k) ==
    NodeAt(gs_entry.node,
           SubSeq(gs_res.call.visited[k], Len(gs_entry.path) + 1,
                  Len(gs_res.call.visited[k])))

\* item j of the visited directory at position k is an Err or a subtree
\* in which get_size fails
ItemFails(k, j) ==
    \/ VisitedNode(k).items[j] = ItemErr
    \/ SubtreeFails(VisitedNode(k).items[j][1])

\* C32: get_size fails exactly when a listing or an item fails somewhere
\* in the subtree it enters; then it returns no sum, it has visited no
\* item that comes after a failing one in the same directory, and the
\* closure reports the entry with size 0 and records one size error; a
\* successful call gives the entry its sum and no size error
C32_GetSizeAllOrNothing ==
    gs_pc = "done" =>
        /\ gs_res.call.ok = ~SubtreeFails(gs_entry.node)
        /\ ~gs_res.call.ok =>
               /\ gs_res.call.size = 0
               /\ gs_res.fse.size = 0
               /\ Count(gs_res.errs, SizeError(gs_entry.path)) = 1
               /\ \A k \in DOMAIN gs_res.errs :
                      gs_res.errs[k].kind = "size" =>
                          gs_res.errs[k] = SizeError(gs_entry.path)
        /\ gs_res.call.ok =>
               /\ gs_res.fse.size = gs_res.call.size
               /\ \A k \in DOMAIN gs_res.errs : gs_res.errs[k].kind # "size"
        /\ \A k \in DOMAIN gs_res.call.visited :
               PathIsDir(VisitedNode(k)) /\ VisitedNode(k).list_ok =>
                   \A j \in DOMAIN VisitedNode(k).items :
                       ItemFails(k, j) =>
                           \A q \in DOMAIN gs_res.call.visited :
                               \A j2 \in DOMAIN VisitedNode(k).items :
                                   gs_res.call.visited[q]
                                       = Append(gs_res.call.visited[k], j2)
                                     => j2 <= j

\* a directory lists a file of two bytes and then a directory whose own
\* listing yields an Err item: the file has been visited, the sum is
\* dropped, the entry has size 0 and one size error
C32_Witness ==
    /\ gs_pc = "done"
    /\ gs_entry.path = <<1>>
    /\ gs_entry.node.kind = "dir" /\ gs_entry.node.meta_ok
    /\ gs_entry.node.items
         = <<ItemOk(FileNode(TextFile)), ItemOk(DirNode(0, TRUE, <<ItemErr>>))>>
    /\ gs_res.call = SizeErr(<<<<1>>, <<1, 1>>, <<1, 2>>>>)
    /\ gs_res.fse = [name |-> <<1>>, size |-> 0, is_dir |-> Some(TRUE)]
    /\ gs_res.errs = <<SizeError(<<1>>)>>

====
